---- MODULE Spec2Model ----
(***************************************************************************)
(* Model of bevy_rerecast_core's navmesh generator                         *)
(* (crates/bevy_rerecast_core/src/generator.rs): the NavmeshGenerator      *)
(* system parameter, the two PostUpdate systems drain_queue_into_tasks and *)
(* poll_tasks, and the staged body of generate_navmesh.                    *)
(***************************************************************************)
EXTENDS Integers, Sequences, FiniteSets, TLC

VARIABLES
    navmeshes,   \* Assets<Navmesh>: asset id -> stored Navmesh, if any
    reserved,    \* number of handles handed out by Assets::reserve_handle
    queue,       \* NavmeshQueue: HashMap<AssetId, NavmeshSettings>
    task_queue,  \* NavmeshTaskQueue: HashMap<AssetId, Task<Result<Navmesh>>>
    scene,       \* affector entities currently alive in the world
    backend,     \* the NavmeshAffectorBackend resource, or NoBackend
    ret,         \* value returned by the last generate / regenerate call
    triggered,   \* ids of the NavmeshReady events triggered by this step
    gen,         \* state of one stepwise invocation of generate_navmesh
    codec,       \* state of one trip of a value through an encoding and back
    handles,     \* ids whose handles were all dropped; whether a system panicked
    editor,      \* the editor: its save and write tasks, its fetch task, its world
    weak         \* the strong handles of navmesh assets and the weak keys made of them

vars == <<navmeshes, reserved, queue, task_queue, scene, backend, ret, triggered, gen,
          codec, handles, editor, weak>>

schedVars == <<navmeshes, reserved, queue, task_queue, scene, backend, ret, triggered>>

----------------------------------------------------------------------------
(* Bounds *)

\* number of handles Assets::reserve_handle may hand out in one behaviour
MaxHandles == 2

\* longest affector list handed to a stepwise generate_navmesh invocation
MaxAffectors == 2

\* longest list of area volumes in the settings of a stepwise invocation
MaxVolumes == 2

\* number of spans rasterize_triangles puts into the heightfield
MaxSpans == 2

\* number of polygons into_polygon_mesh builds the adjacency of
MaxPolygons == 2

\* length of the strip of compact cells that regions are built on and eroded
MaxCells == 5

AssetIds == 1..MaxHandles

----------------------------------------------------------------------------
(* Vectors, settings, geometry *)

Vec3X == <<1, 0, 0>>
Vec3Y == <<0, 1, 0>>
Vec3Z == <<0, 0, 1>>
Vec3NegY == <<0, -1, 0>>
Vec3Zero == <<0, 0, 0>>
Vec3One == <<1, 1, 1>>

\* candidate values of settings.up: the three canonical axes and some others
Ups == {Vec3X, Vec3Y, Vec3Z, Vec3NegY, Vec3Zero, Vec3One}

\* Aabb3d::default(): what into_rerecast_config leaves when no AABB is given
DefaultAabb == [min |-> Vec3Zero, max |-> Vec3Zero]

\* the explicit AABB of the regression test, scaled down
TestAabb == [min |-> <<-5, -4, -3>>, max |-> <<5, 4, 3>>]

\* an f32 that is settable from text: a finite value or f32::INFINITY
F32(n) == [finite |-> TRUE, value |-> n]
F32Infinity == [finite |-> FALSE, value |-> 1]

\* settings with an ordered list of area override volumes
SettingsWithVolumes(up, aabb, volumes) ==
    [up |-> up, aabb |-> aabb, area_volumes |-> volumes, walkable_climb |-> F32(1)]

\* settings whose walkable_climb was read from the text of an input field
SettingsWithClimb(settings, climb) == [settings EXCEPT !.walkable_climb = climb]

Settings(up, aabb) == SettingsWithVolumes(up, aabb, <<>>)

Min2(a, b) == IF a <= b THEN a ELSE b
Max2(a, b) == IF a >= b THEN a ELSE b

\* Transform::transform_point, for a transform that is a pure translation
TransformPoint(t, v) == <<v[1] + t[1], v[2] + t[2], v[3] + t[3]>>

\* the affector (GlobalTransform, TriMesh) each scene entity contributes
EntityAffector(e) ==
    IF e = "ground"
    THEN [transform |-> <<0, 0, -1>>,
          mesh |-> [vertices |-> << <<-4, -3, 0>>, <<4, -2, 0>>, <<1, 3, 0>> >>,
                    indices |-> << <<0, 1, 2>> >>]]
    ELSE [transform |-> <<1, 2, 3>>,
          mesh |-> [vertices |-> << <<0, 0, 0>>, <<1, 0, 2>>, <<0, 2, 1>> >>,
                    indices |-> << <<0, 1, 2>> >>]]

\* the entities the world spawns and despawns; the ground stays
Entities == {"cube"}

NoBackend == "NoBackend"
Backends == {"editor_backend", "failing_backend"}

\* World::run_system_with(backend.0, input) returns Ok for this backend
BackendRuns(b) == b = "editor_backend"

\* a backend that answers from a list gathered once, blind to later despawns
BackendAffectorsCached(s) ==
    <<EntityAffector("ground"), EntityAffector("cube")>>

\* editor_backend: every affector entity of the scene, in query order
BackendAffectors(s) ==
    (IF "ground" \in s THEN <<EntityAffector("ground")>> ELSE <<>>)
    \o (IF "cube" \in s THEN <<EntityAffector("cube")>> ELSE <<>>)

----------------------------------------------------------------------------
(* generate_navmesh, stage by stage *)

EmptyTriMesh == [vertices |-> <<>>, indices |-> <<>>]

\* TriMesh::extend: append vertices, append indices shifted by the old count
TriMeshExtend(a, b) ==
    [vertices |-> a.vertices \o b.vertices,
     indices |-> a.indices \o
        [i \in 1..Len(b.indices) |->
            <<b.indices[i][1] + Len(a.vertices),
              b.indices[i][2] + Len(a.vertices),
              b.indices[i][3] + Len(a.vertices)>>]]

TransformMesh(aff) ==
    [vertices |-> [i \in 1..Len(aff.mesh.vertices) |->
                      TransformPoint(aff.transform, aff.mesh.vertices[i])],
     indices |-> aff.mesh.indices]

RECURSIVE MergeAffectors(_)
MergeAffectors(affectors) ==
    IF affectors = <<>> THEN EmptyTriMesh
    ELSE TriMeshExtend(
            MergeAffectors(SubSeq(affectors, 1, Len(affectors) - 1)),
            TransformMesh(affectors[Len(affectors)]))

\* an up check that accepts every unit-length axis, negative ones included
IsUnitUp(up) == up[1] * up[1] + up[2] * up[2] + up[3] * up[3] = 1

IsCanonicalUp(up) == up \in {Vec3X, Vec3Y, Vec3Z}

\* the permutation applied to every input vertex
PermuteInVertex(up, v) ==
    IF up = Vec3Z THEN <<v[2], v[3], v[1]>>
    ELSE IF up = Vec3X THEN <<v[3], v[1], v[2]>>
    ELSE v

\* the permutation applied to the corners of the configuration AABB
PermuteInAabb(up, v) ==
    IF up = Vec3Z THEN <<v[2], v[3], v[1]>>
    ELSE IF up = Vec3X THEN <<v[3], v[1], v[2]>>
    ELSE v

\* the permutations applied to the finished navmesh
PermuteOutPolygonVertex(up, v) ==
    IF up = Vec3Z THEN <<v[3], v[1], v[2]>>
    ELSE IF up = Vec3X THEN <<v[2], v[3], v[1]>>
    ELSE v

\* an output permutation that repeats the input permutation
PermuteOutDetailVertexAsIn(up, v) ==
    IF up = Vec3Z THEN <<v[2], v[3], v[1]>>
    ELSE IF up = Vec3X THEN <<v[3], v[1], v[2]>>
    ELSE v

PermuteOutDetailVertex(up, v) ==
    IF up = Vec3Z THEN <<v[3], v[1], v[2]>>
    ELSE IF up = Vec3X THEN <<v[2], v[3], v[1]>>
    ELSE v

PermuteOutAabb(up, v) ==
    IF up = Vec3Z THEN <<v[3], v[1], v[2]>>
    ELSE IF up = Vec3X THEN <<v[2], v[3], v[1]>>
    ELSE v

RECURSIVE FoldCorner(_, _, _)
FoldCorner(vertices, acc, pickMin) ==
    IF vertices = <<>> THEN acc
    ELSE LET v == Head(vertices)
             n == IF pickMin
                  THEN <<Min2(acc[1], v[1]), Min2(acc[2], v[2]), Min2(acc[3], v[3])>>
                  ELSE <<Max2(acc[1], v[1]), Max2(acc[2], v[2]), Max2(acc[3], v[3])>>
         IN FoldCorner(Tail(vertices), n, pickMin)

\* Option<T>: None is the empty sequence, Some(x) the sequence holding x
None == <<>>
Some(x) == <<x>>

\* TriMesh::compute_aabb: None for an empty mesh
ComputeAabb(trimesh) ==
    IF trimesh.vertices = <<>> THEN None
    ELSE Some([min |-> FoldCorner(trimesh.vertices, trimesh.vertices[1], TRUE),
               max |-> FoldCorner(trimesh.vertices, trimesh.vertices[1], FALSE)])

\* the rerecast pipeline between the AABB and the output permutation, in the
\* internal Y-up frame: polygon vertices are grid offsets from the AABB
\* minimum, detail vertices are positions, the polygon mesh carries the AABB
RecastPipeline(trimesh, aabb) ==
    [polygon |->
        [vertices |-> [i \in 1..Len(trimesh.vertices) |->
                          <<Max2(0, trimesh.vertices[i][1] - aabb.min[1]),
                            Max2(0, trimesh.vertices[i][2] - aabb.min[2]),
                            Max2(0, trimesh.vertices[i][3] - aabb.min[3])>>],
         aabb |-> aabb],
     detail |-> [vertices |-> trimesh.vertices]]

\* the area override volumes of the settings: a box and the area id it sets
VolumeAll == [min |-> <<-5, -5, -5>>, max |-> <<5, 5, 5>>, area |-> 1]
VolumeUpper == [min |-> <<0, 0, 0>>, max |-> <<5, 5, 5>>, area |-> 2]

VolumePool == {VolumeAll, VolumeUpper}

VolumeLists == UNION {[1..n -> VolumePool] : n \in 0..MaxVolumes}

\* the span at position v lies within the volume
Covers(volume, v) ==
    \A k \in 1..3 : volume.min[k] <= v[k] /\ v[k] <= volume.max[k]

\* the area ids of the compact heightfield erode_walkable_area leaves: one
\* walkable span per input vertex
WalkableAreas(spans) == [i \in 1..Len(spans) |-> 63]

\* CompactHeightfield::mark_convex_poly_area: overwrite the area id of every
\* span within the volume
MarkConvexPolyArea(areas, spans, volume) ==
    [i \in 1..Len(areas) |->
        IF Covers(volume, spans[i]) THEN volume.area ELSE areas[i]]

\* the heightfield under construction: the rerecast calls made on it so far
\* and the area id of each compact span
PipeStart == [calls |-> <<>>, areas |-> <<>>]

\* mark_walkable_triangles, HeightfieldBuilder::build, rasterize_triangles
PipeRasterize(p) ==
    [p EXCEPT !.calls = @ \o <<"mark_walkable_triangles", "HeightfieldBuilder::build",
                               "rasterize_triangles">>]

\* a filter block that runs the ledge filter first
PipeFilterSpansLedgeFirst(p) ==
    [p EXCEPT !.calls = @ \o <<"filter_ledge_spans",
                               "filter_low_hanging_walkable_obstacles",
                               "filter_walkable_low_height_spans">>]

\* the three span filters
PipeFilterSpans(p) ==
    [p EXCEPT !.calls = @ \o <<"filter_low_hanging_walkable_obstacles",
                               "filter_ledge_spans",
                               "filter_walkable_low_height_spans">>]

\* into_compact, erode_walkable_area
PipeCompact(p, spans) ==
    [p EXCEPT !.calls = @ \o <<"into_compact", "erode_walkable_area">>,
              !.areas = WalkableAreas(spans)]

\* a loop over the volumes that starts at the end of the list
RECURSIVE PipeAreaVolumesReversed(_, _, _)
PipeAreaVolumesReversed(p, spans, volumes) ==
    IF volumes = <<>> THEN p
    ELSE PipeAreaVolumesReversed(
            [p EXCEPT !.calls = Append(@, "mark_convex_poly_area"),
                      !.areas = MarkConvexPolyArea(@, spans, volumes[Len(volumes)])],
            spans, SubSeq(volumes, 1, Len(volumes) - 1))

\* for volume in &config.area_volumes { mark_convex_poly_area(volume) }
RECURSIVE PipeAreaVolumes(_, _, _)
PipeAreaVolumes(p, spans, volumes) ==
    IF volumes = <<>> THEN p
    ELSE PipeAreaVolumes(
            [p EXCEPT !.calls = Append(@, "mark_convex_poly_area"),
                      !.areas = MarkConvexPolyArea(@, spans, Head(volumes))],
            spans, Tail(volumes))

\* build_distance_field .. DetailNavmesh::new
PipeBuildMeshes(p) ==
    [p EXCEPT !.calls = @ \o <<"build_distance_field", "build_regions", "build_contours",
                               "into_polygon_mesh", "DetailNavmesh::new">>]

\* the calls of the pipeline block, in the order of the code
PipeRun(spans, volumes) ==
    PipeBuildMeshes(
        PipeAreaVolumes(
            PipeCompact(PipeFilterSpans(PipeRasterize(PipeStart)), spans),
            spans, volumes))

ErrUnsupportedUp == "Unsupported up direction"
ErrComputeAabb == "Failed to compute AABB: trimesh is empty"

Ok(navmesh) == [ok |-> TRUE, navmesh |-> Some(navmesh), err |-> ""]
Err(msg) == [ok |-> FALSE, navmesh |-> None, err |-> msg]

\* the state of an invocation at its entry
GenStart(affectors, settings) ==
    [pc |-> "merge_affectors", affectors |-> affectors, settings |-> settings,
     trimesh |-> EmptyTriMesh, aabb |-> DefaultAabb, internal |-> None,
     heightfield |-> PipeStart, trace |-> <<>>, result |-> None]

\* for (transform, current_trimesh) in affectors { ... trimesh.extend(..) }
StageMergeAffectors(g) ==
    [g EXCEPT !.pc = "permute_input",
              !.trimesh = MergeAffectors(g.affectors),
              !.trace = Append(@, "merge_affectors")]

\* match up { Y => {}, Z => .., X => .., _ => return Err }
StagePermuteInput(g) ==
    IF IsCanonicalUp(g.settings.up)
    THEN [g EXCEPT !.pc = "aabb",
                   !.trimesh.vertices =
                       [i \in 1..Len(@) |-> PermuteInVertex(g.settings.up, @[i])],
                   !.trace = Append(@, "permute_input")]
    ELSE [g EXCEPT !.pc = "done", !.result = Some(Err(ErrUnsupportedUp))]

\* a config block that falls back to the default AABB for an empty trimesh
StageAabbUnchecked(g) ==
    LET given == g.settings.aabb
        derived == ComputeAabb(g.trimesh)
        base == IF given # DefaultAabb THEN given
                ELSE IF derived = None THEN DefaultAabb ELSE derived[1]
    IN [g EXCEPT !.pc = "pipeline",
                 !.aabb = [min |-> PermuteInAabb(g.settings.up, base.min),
                           max |-> PermuteInAabb(g.settings.up, base.max)],
                 !.trace = Append(@, "aabb")]

\* the config block: derive the AABB when none was given, then permute it
StageAabb(g) ==
    LET given == g.settings.aabb
        base == IF given = DefaultAabb THEN ComputeAabb(g.trimesh) ELSE Some(given)
    IN IF base = None
       THEN [g EXCEPT !.pc = "done", !.result = Some(Err(ErrComputeAabb))]
       ELSE [g EXCEPT !.pc = "pipeline",
                      !.aabb = [min |-> PermuteInAabb(g.settings.up, base[1].min),
                                max |-> PermuteInAabb(g.settings.up, base[1].max)],
                      !.trace = Append(@, "aabb")]

\* mark_walkable_triangles .. DetailNavmesh::new
StagePipeline(g) ==
    [g EXCEPT !.pc = "permute_output",
              !.internal = Some(RecastPipeline(g.trimesh, g.aabb)),
              !.heightfield = PipeRun(g.trimesh.vertices, g.settings.area_volumes),
              !.trace = Append(@, "pipeline")]

\* the rerecast calls of the pipeline block that return a Result (the ones
\* followed by ?)
FallibleCalls ==
    {"HeightfieldBuilder::build", "rasterize_triangles", "into_compact",
     "build_regions", "into_polygon_mesh", "DetailNavmesh::new"}

\* the error a rerecast call returns: it names the stage that raised it
RerecastError(call) ==
    CASE call = "HeightfieldBuilder::build" -> "heightfield build"
      [] call = "rasterize_triangles" -> "rasterization"
      [] call = "into_compact" -> "compaction"
      [] call = "build_regions" -> "region building"
      [] call = "into_polygon_mesh" -> "polygon mesh"
      [] OTHER -> "detail mesh"

\* a pipeline block that hands back one error for every failed call
StagePipelineFailingFlat(g, call) ==
    LET all == PipeRun(g.trimesh.vertices, g.settings.area_volumes)
        last == CHOOSE i \in 1..Len(all.calls) : all.calls[i] = call
    IN [g EXCEPT !.pc = "done",
                 !.heightfield = [calls |-> SubSeq(all.calls, 1, last),
                                  areas |-> IF call \in {"HeightfieldBuilder::build",
                                                         "rasterize_triangles", "into_compact"}
                                            THEN <<>> ELSE all.areas],
                 !.result = Some(Err("Failed to generate navmesh"))]

\* the pipeline block when the rerecast call `call` returns Err: the ? hands
\* the error of the call back as it is, and no later call is made
StagePipelineFailing(g, call) ==
    LET all == PipeRun(g.trimesh.vertices, g.settings.area_volumes)
        last == CHOOSE i \in 1..Len(all.calls) : all.calls[i] = call
    IN [g EXCEPT !.pc = "done",
                 !.heightfield = [calls |-> SubSeq(all.calls, 1, last),
                                  areas |-> IF call \in {"HeightfieldBuilder::build",
                                                         "rasterize_triangles", "into_compact"}
                                            THEN <<>> ELSE all.areas],
                 !.result = Some(Err(RerecastError(call)))]

\* an output stage that stores the settings with the AABB the pipeline used
StagePermuteOutputConfigAabb(g) ==
    LET up == g.settings.up
        p == g.internal[1].polygon
        d == g.internal[1].detail
    IN [g EXCEPT !.pc = "done",
                 !.trace = Append(@, "permute_output"),
                 !.result = Some(Ok(
                    [polygon |->
                        [vertices |-> [i \in 1..Len(p.vertices) |->
                                          PermuteOutPolygonVertex(up, p.vertices[i])],
                         aabb |-> [min |-> PermuteOutAabb(up, p.aabb.min),
                                   max |-> PermuteOutAabb(up, p.aabb.max)]],
                     detail |->
                        [vertices |-> [i \in 1..Len(d.vertices) |->
                                          PermuteOutDetailVertex(up, d.vertices[i])]],
                     settings |-> [g.settings EXCEPT !.aabb = g.aabb]]))]

\* Navmesh { polygon, detail, settings } and the permutation on the way out
StagePermuteOutput(g) ==
    LET up == g.settings.up
        p == g.internal[1].polygon
        d == g.internal[1].detail
    IN [g EXCEPT !.pc = "done",
                 !.trace = Append(@, "permute_output"),
                 !.result = Some(Ok(
                    [polygon |->
                        [vertices |-> [i \in 1..Len(p.vertices) |->
                                          PermuteOutPolygonVertex(up, p.vertices[i])],
                         aabb |-> [min |-> PermuteOutAabb(up, p.aabb.min),
                                   max |-> PermuteOutAabb(up, p.aabb.max)]],
                     detail |->
                        [vertices |-> [i \in 1..Len(d.vertices) |->
                                          PermuteOutDetailVertex(up, d.vertices[i])]],
                     settings |-> g.settings]))]

GenStep(g) ==
    CASE g.pc = "merge_affectors" -> StageMergeAffectors(g)
      [] g.pc = "permute_input" -> StagePermuteInput(g)
      [] g.pc = "aabb" -> StageAabb(g)
      [] g.pc = "pipeline" -> StagePipeline(g)
      [] g.pc = "permute_output" -> StagePermuteOutput(g)
      [] OTHER -> g

RECURSIVE GenRun(_)
GenRun(g) ==
    IF g.pc = "done" THEN g
    ELSE CHOOSE r \in {GenRun(n) : n \in {GenStep(g)}} : TRUE

\* the inputs an invocation is run on
\* an affector whose mesh has no vertex and no triangle
EmptyAffector == [transform |-> <<2, 0, 0>>, mesh |-> EmptyTriMesh]

AffectorPool == {EntityAffector("ground"), EntityAffector("cube"), EmptyAffector}

AffectorLists == UNION {[1..n -> AffectorPool] : n \in 0..MaxAffectors}

GenSettings ==
    {SettingsWithVolumes(up, aabb, volumes) :
        up \in Ups, aabb \in {DefaultAabb, TestAabb}, volumes \in VolumeLists}

\* async fn generate_navmesh(affectors, settings) -> Result<Navmesh>
generate_navmesh(affectors, settings) == GenRun(GenStart(affectors, settings)).result[1]

----------------------------------------------------------------------------
(* The generator: NavmeshGenerator, drain_queue_into_tasks, poll_tasks *)

\* the settings requests are made with
SettingsSet == {Settings(Vec3Y, TestAabb), Settings(Vec3NegY, TestAabb)}

\* what the last call of the NavmeshGenerator returned: the id of the handle
\* (generate) or the boolean (regenerate)
NoReturn == [op |-> "none", id |-> 0, queued |-> FALSE, backend |-> NoBackend]
Returned(op, id, queued) ==
    [op |-> op, id |-> id, queued |-> queued, backend |-> NoBackend]

\* the last call was set_navmesh_affector_backend(b)
BackendSet(b) ==
    [op |-> "set_navmesh_affector_backend", id |-> 0, queued |-> FALSE, backend |-> b]

GenIdle == [pc |-> "idle"]

CodecIdle == [pc |-> "idle"]

\* every handle handed out is still held, and no system has panicked
AllHandlesHeld == [dropped |-> {}, panicked |-> FALSE]

\* HashMap::insert
MapInsert(m, k, v) == [x \in (DOMAIN m) \cup {k} |-> IF x = k THEN v ELSE m[x]]

\* a removal that clears the whole map
MapRemoveAll(m, ks) == [x \in {} |-> m[x]]

\* HashMap without the keys in ks
MapRemove(m, ks) == [x \in (DOMAIN m) \ ks |-> m[x]]

EmptyMap == [x \in {} |-> None]

\* no strong handle was made yet, and no WeHaveWeakHandleAtHome
NoHandles ==
    [arcs |-> <<>>,       \* each Arc<StrongHandle>: its asset id, its strong count
     keys |-> <<>>,       \* each WeHaveWeakHandleAtHome: its id, the Arc it points to
     panicked |-> FALSE]  \* new was called with a Handle::Weak

\* Handle::default(), the value of NavmeshHandle before a navmesh was built
DefaultHandle == 0

\* the editor after its plugins ran: no SaveTask, an empty WriteTasks, the
\* default NavmeshHandle, no fetch task, a scene without meshes and gizmos
EditorIdle ==
    [save_task |-> None,          \* the SaveTask resource, if it exists
     dialogs |-> 0,               \* save dialogs opened so far
     write_tasks |-> <<>>,        \* WriteTasks: the write tasks held, by number
     writes |-> <<>>,             \* what became of each write task spawned
     navmesh_handle |-> DefaultHandle,
     has_navmesh |-> FALSE,       \* Assets<Navmesh> holds a navmesh under the handle
     built |-> 0,                 \* handles NavmeshGenerator::generate handed out
     task |-> None,               \* the Local<Option<Task<()>>> of the observer
     fetches |-> 0,               \* pipeline tasks spawned so far
     visual_meshes |-> {},        \* entities with Mesh3d and VisualMesh
     gizmos |-> <<>>,             \* the GizmoAsset of each Gizmo entity
     entities |-> 0,              \* entities spawned so far
     log |-> {}]                  \* what this step logged with error!

Init ==
    /\ navmeshes = [id \in AssetIds |-> None]
    /\ reserved = 0
    /\ queue = EmptyMap
    /\ task_queue = EmptyMap
    /\ scene = {"ground", "cube"}
    /\ backend = NoBackend
    /\ ret = NoReturn
    /\ triggered = {}
    /\ gen = GenIdle
    /\ codec = CodecIdle
    /\ handles = AllHandlesHeld
    /\ editor = EditorIdle
    /\ weak = NoHandles

\* NavmeshGenerator::generate
generate(settings) ==
    /\ reserved < MaxHandles
    /\ LET id == reserved + 1 IN
        /\ reserved' = id
        /\ queue' = MapInsert(queue, id, settings)
        /\ ret' = Returned("generate", id, TRUE)
    /\ triggered' = {}
    /\ UNCHANGED <<navmeshes, task_queue, scene, backend, gen, codec, handles, editor, weak>>

\* a check that looks at the pending queue only
AlreadyQueuedPendingOnly(id) == id \in DOMAIN queue

\* the id is already queued or has a task
AlreadyQueued(id) == id \in (DOMAIN queue) \cup (DOMAIN task_queue)

\* NavmeshGenerator::regenerate
regenerate(id, settings) ==
    /\ id \in 1..reserved
    /\ IF AlreadyQueued(id)
       THEN /\ ret' = Returned("regenerate", id, FALSE)
            /\ UNCHANGED queue
       ELSE /\ queue' = MapInsert(queue, id, settings)
            /\ ret' = Returned("regenerate", id, TRUE)
    /\ triggered' = {}
    /\ UNCHANGED <<navmeshes, reserved, task_queue, scene, backend, gen, codec, handles, editor, weak>>

\* a registration that leaves a backend that is already set in place
set_navmesh_affector_backend_keep(b) ==
    /\ backend' = IF backend = NoBackend THEN b ELSE backend
    /\ ret' = BackendSet(b)
    /\ triggered' = {}
    /\ UNCHANGED <<navmeshes, reserved, queue, task_queue, scene, gen, codec, handles, editor, weak>>

\* NavmeshApp::set_navmesh_affector_backend: insert_resource replaces the
\* resource if there is one
set_navmesh_affector_backend(b) ==
    /\ backend' = b
    /\ ret' = BackendSet(b)
    /\ triggered' = {}
    /\ UNCHANGED <<navmeshes, reserved, queue, task_queue, scene, gen, codec, handles, editor, weak>>

\* the world spawns or despawns an affector entity
Spawn(e) ==
    /\ e \notin scene
    /\ scene' = scene \cup {e}
    /\ ret' = NoReturn
    /\ triggered' = {}
    /\ UNCHANGED <<navmeshes, reserved, queue, task_queue, backend, gen, codec, handles, editor, weak>>

Despawn(e) ==
    /\ e \in scene
    /\ scene' = scene \ {e}
    /\ ret' = NoReturn
    /\ triggered' = {}
    /\ UNCHANGED <<navmeshes, reserved, queue, task_queue, backend, gen, codec, handles, editor, weak>>

\* the task thread_pool.spawn(generate_navmesh(affectors.clone(), input)) yields
SpawnTask(affectors, input) ==
    [affectors |-> affectors, settings |-> input, result |-> None]

\* the entries of the taken queue that get a task: all of them, or none when
\* the first one finds no backend or the backend system fails
Drained(q) ==
    IF backend = NoBackend \/ ~BackendRuns(backend) THEN {} ELSE DOMAIN q

\* drain_queue_into_tasks
drain_queue_into_tasks ==
    /\ queue' = EmptyMap
    /\ task_queue' =
        [id \in (DOMAIN task_queue) \cup Drained(queue) |->
            IF id \in Drained(queue)
            THEN SpawnTask(BackendAffectors(scene), queue[id])
            ELSE task_queue[id]]
    /\ ret' = NoReturn
    /\ triggered' = {}
    /\ UNCHANGED <<navmeshes, reserved, scene, backend, gen, codec, handles, editor, weak>>

\* the async compute pool runs the task for id to its end
TaskFinish(id) ==
    /\ id \in DOMAIN task_queue
    /\ task_queue[id].result = None
    /\ task_queue' = [task_queue EXCEPT ![id].result =
                        Some(generate_navmesh(task_queue[id].affectors,
                                              task_queue[id].settings))]
    /\ ret' = NoReturn
    /\ triggered' = {}
    /\ UNCHANGED <<navmeshes, reserved, queue, scene, backend, gen, codec, handles, editor, weak>>

\* a poll that only takes out the tasks that finished with Ok
FinishedOkIds ==
    {id \in DOMAIN task_queue :
        task_queue[id].result # None /\ task_queue[id].result[1].ok}

\* the ids poll_once finds finished
FinishedIds == {id \in DOMAIN task_queue : task_queue[id].result # None}

\* a poll that inserts whatever a finished task left, failed or not
InsertedIdsAll == FinishedIds

\* the finished ids whose result is Ok(navmesh): navmeshes.insert(id, navmesh)
InsertedIds == {id \in FinishedIds : task_queue[id].result[1].ok}

\* poll_tasks: navmeshes.insert(id, navmesh) under an id whose handles were
\* all dropped hits unreachable code in Assets::insert, and the system panics
\* before it removes a task or triggers an event
poll_tasks ==
    IF InsertedIds \cap handles.dropped # {}
    THEN /\ handles' = [handles EXCEPT !.panicked = TRUE]
         /\ triggered' = {}
         /\ ret' = NoReturn
         /\ UNCHANGED <<navmeshes, reserved, queue, task_queue, scene, backend, gen, codec, editor, weak>>
    ELSE /\ navmeshes' =
            [id \in AssetIds |->
                IF id \in InsertedIds
                THEN task_queue[id].result[1].navmesh
                ELSE navmeshes[id]]
         /\ task_queue' = MapRemove(task_queue, FinishedIds)
         /\ triggered' = FinishedIds
         /\ ret' = NoReturn
         /\ UNCHANGED <<reserved, queue, scene, backend, gen, codec, handles, editor, weak>>

Next ==
    \/ \E s \in SettingsSet : generate(s)
    \/ \E id \in AssetIds, s \in SettingsSet : regenerate(id, s)
    \/ \E b \in Backends : set_navmesh_affector_backend(b)
    \/ \E e \in Entities : Spawn(e)
    \/ \E e \in Entities : Despawn(e)
    \/ drain_queue_into_tasks
    \/ \E id \in AssetIds : TaskFinish(id)
    \/ poll_tasks

Spec == Init /\ [][Next]_vars

\* the app keeps running updates (PostUpdate runs both systems every frame)
\* and the compute pool runs every spawned task to its end
Fairness ==
    /\ WF_vars(drain_queue_into_tasks)
    /\ WF_vars(poll_tasks)
    /\ \A id \in AssetIds : WF_vars(TaskFinish(id))

FairSpec == Spec /\ Fairness

----------------------------------------------------------------------------
(* The generator while callers drop the handles generate gave them *)

\* the caller drops every handle of id, and the asset collection frees the
\* slot of the id and the navmesh stored in it
drop_handle(id) ==
    /\ id \in 1..reserved
    /\ id \notin handles.dropped
    /\ ~handles.panicked
    /\ handles' = [handles EXCEPT !.dropped = @ \cup {id}]
    /\ navmeshes' = [navmeshes EXCEPT ![id] = None]
    /\ ret' = NoReturn
    /\ triggered' = {}
    /\ UNCHANGED <<reserved, queue, task_queue, scene, backend, gen, codec, editor, weak>>

\* the systems and calls of the app run until one of them panics
HandleNext ==
    \/ \E id \in AssetIds : drop_handle(id)
    \/ \E s \in SettingsSet : ~handles.panicked /\ generate(s)
    \/ \E id \in AssetIds, s \in SettingsSet : ~handles.panicked /\ regenerate(id, s)
    \/ \E b \in Backends : ~handles.panicked /\ set_navmesh_affector_backend(b)
    \/ \E e \in Entities : ~handles.panicked /\ Spawn(e)
    \/ \E e \in Entities : ~handles.panicked /\ Despawn(e)
    \/ ~handles.panicked /\ drain_queue_into_tasks
    \/ \E id \in AssetIds : ~handles.panicked /\ TaskFinish(id)
    \/ ~handles.panicked /\ poll_tasks

HandleSpec == Init /\ [][HandleNext]_vars

----------------------------------------------------------------------------
(* One invocation of generate_navmesh, run stage by stage *)

GenInit ==
    /\ navmeshes = [id \in AssetIds |-> None]
    /\ reserved = 0
    /\ queue = EmptyMap
    /\ task_queue = EmptyMap
    /\ scene = {"ground", "cube"}
    /\ backend = NoBackend
    /\ ret = NoReturn
    /\ triggered = {}
    /\ \E a \in AffectorLists, s \in GenSettings : gen = GenStart(a, s)
    /\ codec = CodecIdle
    /\ handles = AllHandlesHeld
    /\ editor = EditorIdle
    /\ weak = NoHandles

gen_merge_affectors ==
    /\ gen.pc = "merge_affectors"
    /\ gen' = StageMergeAffectors(gen)
    /\ UNCHANGED <<schedVars, codec, handles, editor, weak>>

gen_permute_input ==
    /\ gen.pc = "permute_input"
    /\ gen' = StagePermuteInput(gen)
    /\ UNCHANGED <<schedVars, codec, handles, editor, weak>>

gen_aabb ==
    /\ gen.pc = "aabb"
    /\ gen' = StageAabb(gen)
    /\ UNCHANGED <<schedVars, codec, handles, editor, weak>>

gen_pipeline ==
    /\ gen.pc = "pipeline"
    /\ \/ gen' = StagePipeline(gen)
       \/ \E call \in FallibleCalls : gen' = StagePipelineFailing(gen, call)
    /\ UNCHANGED <<schedVars, codec, handles, editor, weak>>

gen_permute_output ==
    /\ gen.pc = "permute_output"
    /\ gen' = StagePermuteOutput(gen)
    /\ UNCHANGED <<schedVars, codec, handles, editor, weak>>

GenNext ==
    \/ gen_merge_affectors
    \/ gen_permute_input
    \/ gen_aabb
    \/ gen_pipeline
    \/ gen_permute_output

GenSpec == GenInit /\ [][GenNext]_vars

----------------------------------------------------------------------------
(* Encodings: the .nav text of a Navmesh and the editor transmission *)

\* values of the serde data model: unsigned integers, f32 (finite or
\* infinite), sequences, fixed-size tuples and structs with named fields; a
\* type is written as a value of it, a sequence type holding its one item type
TU(n) == [k |-> "u", n |-> n, names |-> <<>>, items |-> <<>>]
TF(n) == [k |-> "f", n |-> n, names |-> <<>>, items |-> <<>>]
TInf == [k |-> "inf", n |-> 0, names |-> <<>>, items |-> <<>>]
TSeq(items) == [k |-> "seq", n |-> 0, names |-> <<>>, items |-> items]
TTuple(items) == [k |-> "tuple", n |-> 0, names |-> <<>>, items |-> items]
TStruct(names, items) == [k |-> "struct", n |-> 0, names |-> names, items |-> items]

\* #[derive(Serialize)] on Navmesh: polygon, detail, settings
NavmeshTree(n) ==
    LET Vec3Tree(v) == TTuple(<<TF(v[1]), TF(v[2]), TF(v[3])>>)
        U16Vec3Tree(v) == TTuple(<<TU(v[1]), TU(v[2]), TU(v[3])>>)
        AabbTree(a) == TStruct(<<"min", "max">>, <<Vec3Tree(a.min), Vec3Tree(a.max)>>)
        VolumeTree(v) ==
            TStruct(<<"min", "max", "area">>,
                    <<Vec3Tree(v.min), Vec3Tree(v.max), TU(v.area)>>)
        s == n.settings
    IN TStruct(<<"polygon", "detail", "settings">>,
            <<TStruct(<<"vertices", "aabb">>,
                      <<TSeq([i \in 1..Len(n.polygon.vertices) |->
                                U16Vec3Tree(n.polygon.vertices[i])]),
                        AabbTree(n.polygon.aabb)>>),
              TStruct(<<"vertices">>,
                      <<TSeq([i \in 1..Len(n.detail.vertices) |->
                                Vec3Tree(n.detail.vertices[i])])>>),
              TStruct(<<"walkable_climb", "aabb", "area_volumes", "up">>,
                      <<IF s.walkable_climb.finite THEN TF(s.walkable_climb.value)
                        ELSE TInf,
                        AabbTree(s.aabb),
                        TSeq([i \in 1..Len(s.area_volumes) |->
                                VolumeTree(s.area_volumes[i])]),
                        Vec3Tree(s.up)>>)>>)

\* #[derive(Deserialize)] on Navmesh: the type the loader reads
NavmeshShape ==
    LET Vec3Shape == TTuple(<<TF(0), TF(0), TF(0)>>)
        U16Vec3Shape == TTuple(<<TU(0), TU(0), TU(0)>>)
        AabbShape == TStruct(<<"min", "max">>, <<Vec3Shape, Vec3Shape>>)
        VolumeShape == TStruct(<<"min", "max", "area">>, <<Vec3Shape, Vec3Shape, TU(0)>>)
    IN TStruct(<<"polygon", "detail", "settings">>,
            <<TStruct(<<"vertices", "aabb">>, <<TSeq(<<U16Vec3Shape>>), AabbShape>>),
              TStruct(<<"vertices">>, <<TSeq(<<Vec3Shape>>)>>),
              TStruct(<<"walkable_climb", "aabb", "area_volumes", "up">>,
                      <<TF(0), AabbShape, TSeq(<<VolumeShape>>), Vec3Shape>>)>>)

DigitChars == <<"0", "1", "2", "3", "4", "5", "6", "7", "8", "9">>

RECURSIVE Digits(_)
Digits(n) ==
    IF n < 10 THEN <<DigitChars[n + 1]>>
    ELSE Digits(n \div 10) \o <<DigitChars[(n % 10) + 1]>>

\* serde_json::to_string_pretty: the text as a sequence of tokens, " " being
\* the line break and indentation the pretty printer puts before each item;
\* an f32 is written as its shortest decimal, and as null when not finite
RECURSIVE WriteJson(_)
RECURSIVE WriteItems(_, _)
WriteJson(t) ==
    CASE t.k = "u" -> Digits(t.n)
      [] t.k = "f" ->
            (IF t.n < 0 THEN <<"-">> ELSE <<>>)
            \o Digits(IF t.n < 0 THEN -t.n ELSE t.n) \o <<".", "0">>
      [] t.k = "inf" -> <<"null">>
      [] t.k \in {"seq", "tuple"} ->
            IF t.items = <<>> THEN <<"[", "]">>
            ELSE <<"[">> \o WriteItems(t, 1) \o <<" ", "]">>
      [] OTHER -> <<"{">> \o WriteItems(t, 1) \o <<" ", "}">>

WriteItems(t, i) ==
    IF i > Len(t.items) THEN <<>>
    ELSE (IF i > 1 THEN <<",">> ELSE <<>>)
         \o <<" ">>
         \o (IF t.k = "struct" THEN <<t.names[i], ":", " ">> ELSE <<>>)
         \o WriteJson(t.items[i])
         \o WriteItems(t, i + 1)

Peek(text, pos) == IF pos >= 1 /\ pos <= Len(text) THEN text[pos] ELSE "eof"

RECURSIVE SkipWs(_, _)
SkipWs(text, pos) == IF Peek(text, pos) = " " THEN SkipWs(text, pos + 1) ELSE pos

ParseFail == [ok |-> FALSE, v |-> TU(0), pos |-> 0]
ParseOk(v, pos) == [ok |-> TRUE, v |-> v, pos |-> pos]

IsDigit(c) == \E d \in 1..10 : DigitChars[d] = c

RECURSIVE ParseDigits(_, _, _)
ParseDigits(text, pos, acc) ==
    IF IsDigit(Peek(text, pos))
    THEN ParseDigits(text, pos + 1,
                     acc * 10 + (CHOOSE d \in 0..9 : DigitChars[d + 1] = text[pos]))
    ELSE [n |-> acc, pos |-> pos]

\* serde_json::from_slice::<T>: the text read as the type `shape`; a number
\* read as u16 must fit, and null is not an f32
RECURSIVE ParseJson(_, _, _)
RECURSIVE ParseElems(_, _, _, _, _)
RECURSIVE ParseFields(_, _, _, _, _)
ParseJson(shape, text, pos0) ==
    LET pos == SkipWs(text, pos0)
        neg == Peek(text, pos) = "-"
        p1 == IF neg THEN pos + 1 ELSE pos
        d == ParseDigits(text, p1, 0)
        frac == Peek(text, d.pos) = "."
        f == ParseDigits(text, d.pos + 1, 0)
    IN
    CASE shape.k = "u" ->
            IF ~IsDigit(Peek(text, pos)) \/ d.n > 65535 THEN ParseFail
            ELSE ParseOk(TU(d.n), d.pos)
      [] shape.k = "f" ->
            IF ~IsDigit(Peek(text, p1)) THEN ParseFail
            ELSE IF frac /\ (f.pos = d.pos + 1 \/ f.n # 0) THEN ParseFail
            ELSE ParseOk(TF(IF neg THEN -d.n ELSE d.n), IF frac THEN f.pos ELSE d.pos)
      [] shape.k \in {"seq", "tuple"} ->
            IF Peek(text, pos) = "[" THEN ParseElems(shape, text, pos + 1, 1, <<>>)
            ELSE ParseFail
      [] OTHER ->
            IF Peek(text, pos) = "{" THEN ParseFields(shape, text, pos + 1, 1, <<>>)
            ELSE ParseFail

\* the items of an array: exactly Len(shape.items) of them for a tuple type
\* (Vec3, U16Vec3), any number for a Vec
ParseElems(shape, text, pos0, i, acc) ==
    LET pos == SkipWs(text, pos0)
        fixed == shape.k = "tuple"
        full == fixed /\ i > Len(shape.items)
        item == IF fixed THEN shape.items[i] ELSE shape.items[1]
    IN IF Peek(text, pos) = "]"
       THEN IF fixed /\ ~full THEN ParseFail
            ELSE ParseOk(IF fixed THEN TTuple(acc) ELSE TSeq(acc), pos + 1)
       ELSE IF full \/ (i > 1 /\ Peek(text, pos) # ",") THEN ParseFail
       ELSE LET r == CHOOSE x \in {ParseJson(item, text, IF i = 1 THEN pos ELSE pos + 1)} : TRUE
            IN IF ~r.ok THEN ParseFail
               ELSE ParseElems(shape, text, r.pos, i + 1, Append(acc, r.v))

ParseFields(shape, text, pos0, i, acc) ==
    LET pos == SkipWs(text, pos0) IN
    IF i > Len(shape.items)
    THEN IF Peek(text, pos) = "}" THEN ParseOk(TStruct(shape.names, acc), pos + 1)
         ELSE ParseFail
    ELSE LET p1 == IF i = 1 THEN pos
                   ELSE IF Peek(text, pos) = "," THEN SkipWs(text, pos + 1) ELSE 0
             p2 == SkipWs(text, p1 + 2)
         IN IF Peek(text, p1) # shape.names[i] \/ Peek(text, p1 + 1) # ":" THEN ParseFail
            ELSE LET r == CHOOSE x \in {ParseJson(shape.items[i], text, p2)} : TRUE
                 IN IF ~r.ok THEN ParseFail
                    ELSE ParseFields(shape, text, r.pos, i + 1, Append(acc, r.v))

ErrDeserialize == "Could not deserialize navmesh"

\* NavmeshLoader::load on the bytes of a .nav file
NavmeshLoader_load(text) ==
    LET r == CHOOSE x \in {ParseJson(NavmeshShape, text, 1)} : TRUE
    IN IF r.ok /\ SkipWs(text, r.pos) = Len(text) + 1
       THEN Ok(r.v)
       ELSE Err(ErrDeserialize)

\* bincode's variable-length integer of the standard configuration
Varint(n) ==
    IF n < 251 THEN <<n>>
    ELSE IF n < 65536 THEN <<251, n % 256, n \div 256>>
    ELSE <<252, n % 256, (n \div 256) % 256, (n \div 65536) % 256, n \div 16777216>>

\* the four little-endian bytes of the IEEE 754 single with the integer value n
F32Bytes(n) ==
    LET a == IF n < 0 THEN -n ELSE n
        e == CHOOSE x \in 0..23 : 2^x <= a /\ a < 2^(x + 1)
        exp == e + 127
        mant == (a - 2^e) * 2^(23 - e)
    IN IF n = 0 THEN <<0, 0, 0, 0>>
       ELSE <<mant % 256, (mant \div 256) % 256, (exp % 2) * 128 + mant \div 65536,
              (IF n < 0 THEN 128 ELSE 0) + exp \div 2>>

\* bincode::serde::encode_to_vec(val, standard()): integers as varints, f32 as
\* its bytes, a Vec as its length and its items, tuples and structs as their
\* items
RECURSIVE BincodeEncode(_)
RECURSIVE BincodeEncodeItems(_, _)
BincodeEncode(t) ==
    CASE t.k = "u" -> Varint(t.n)
      [] t.k = "f" -> F32Bytes(t.n)
      [] t.k = "inf" -> <<0, 0, 128, 127>>
      [] t.k = "seq" -> Varint(Len(t.items)) \o BincodeEncodeItems(t, 1)
      [] OTHER -> BincodeEncodeItems(t, 1)

BincodeEncodeItems(t, i) ==
    IF i > Len(t.items) THEN <<>>
    ELSE BincodeEncode(t.items[i]) \o BincodeEncodeItems(t, i + 1)

\* bincode::serde::decode_from_slice::<T>(bytes, standard())
RECURSIVE BincodeDecode(_, _, _)
RECURSIVE BincodeDecodeItems(_, _, _, _, _, _)
BincodeDecode(shape, bytes, pos) ==
    LET Byte(i) == bytes[pos + i]
        has(n) == pos + n - 1 <= Len(bytes)
        len == IF ~has(1) THEN ParseFail
               ELSE IF Byte(0) < 251 THEN ParseOk(TU(Byte(0)), pos + 1)
               ELSE IF Byte(0) = 251 /\ has(3)
                    THEN ParseOk(TU(Byte(1) + 256 * Byte(2)), pos + 3)
               ELSE IF Byte(0) = 252 /\ has(5) /\ Byte(4) < 128
                    THEN ParseOk(TU(Byte(1) + 256 * Byte(2) + 65536 * Byte(3)
                                    + 16777216 * Byte(4)), pos + 5)
               ELSE ParseFail
        exp == (Byte(3) % 128) * 2 + Byte(2) \div 128
        mant == (Byte(2) % 128) * 65536 + Byte(1) * 256 + Byte(0)
        sig == 8388608 + mant
        mag == IF exp >= 150 THEN sig * 2^(exp - 150) ELSE sig \div 2^(150 - exp)
    IN
    CASE shape.k = "u" -> len
      [] shape.k = "f" ->
            IF ~has(4) THEN ParseFail
            ELSE IF exp = 255 THEN ParseOk(TInf, pos + 4)
            ELSE IF exp = 0 THEN ParseOk(TF(0), pos + 4)
            ELSE IF exp < 127 \/ exp > 150 THEN ParseFail
            ELSE ParseOk(TF(IF Byte(3) >= 128 THEN -mag ELSE mag), pos + 4)
      [] shape.k = "seq" ->
            IF ~len.ok THEN ParseFail
            ELSE BincodeDecodeItems(shape, bytes, len.pos, 1, len.v.n, <<>>)
      [] OTHER -> BincodeDecodeItems(shape, bytes, pos, 1, Len(shape.items), <<>>)

BincodeDecodeItems(shape, bytes, pos, i, count, acc) ==
    IF i > count
    THEN ParseOk([shape EXCEPT !.items = acc], pos)
    ELSE LET item == IF shape.k = "seq" THEN shape.items[1] ELSE shape.items[i]
             r == CHOOSE x \in {BincodeDecode(item, bytes, pos)} : TRUE
         IN IF ~r.ok THEN ParseFail
            ELSE BincodeDecodeItems(shape, bytes, r.pos, i + 1, count, Append(acc, r.v))

\* BASE64_STANDARD.encode: three bytes to four sextets, 64 being the padding
Base64Encode(bytes) ==
    LET n == Len(bytes)
        B(i) == IF i <= n THEN bytes[i] ELSE 0
        Sextet(j) ==
            LET g == (j - 1) \div 4
                r == (j - 1) % 4
                a == B(3 * g + 1)
                b == B(3 * g + 2)
                c == B(3 * g + 3)
            IN CASE r = 0 -> a \div 4
                 [] r = 1 -> (a % 4) * 16 + b \div 16
                 [] r = 2 -> IF 3 * g + 2 > n THEN 64 ELSE (b % 16) * 4 + c \div 64
                 [] OTHER -> IF 3 * g + 3 > n THEN 64 ELSE c % 64
    IN [j \in 1..(4 * ((n + 2) \div 3)) |-> Sextet(j)]

\* BASE64_STANDARD.decode: whole groups of four, padding only at the end, no
\* stray bits before the padding
Base64Decode(chars) ==
    LET m == Len(chars)
        pad == IF m >= 1 /\ chars[m] = 64
               THEN IF m >= 2 /\ chars[m - 1] = 64 THEN 2 ELSE 1
               ELSE 0
        n == (m \div 4) * 3 - pad
        C(j) == IF chars[j] = 64 THEN 0 ELSE chars[j]
        Byte(i) ==
            LET g == (i - 1) \div 3
                r == (i - 1) % 3
            IN CASE r = 0 -> C(4 * g + 1) * 4 + C(4 * g + 2) \div 16
                 [] r = 1 -> (C(4 * g + 2) % 16) * 16 + C(4 * g + 3) \div 4
                 [] OTHER -> (C(4 * g + 3) % 4) * 64 + C(4 * g + 4)
        valid == /\ m % 4 = 0
                 /\ \A j \in 1..(m - pad) : chars[j] \in 0..63
                 /\ pad = 2 => chars[m - 2] % 16 = 0
                 /\ pad = 1 => chars[m - 1] % 4 = 0
    IN IF valid THEN [ok |-> TRUE, bytes |-> [i \in 1..n |-> Byte(i)]]
       ELSE [ok |-> FALSE, bytes |-> <<>>]

\* serde_json::Value: a string of base64 characters, or something else
JsonString(chars) == [kind |-> "String", chars |-> chars]
JsonOther(kind) == [kind |-> kind, chars |-> <<>>]

\* transmission::serialize
serialize(val) == JsonString(Base64Encode(BincodeEncode(val)))

\* a deserialize that hands the characters of the string to bincode as they are
deserializeUndecoded(shape, value) ==
    LET r == CHOOSE x \in {BincodeDecode(shape, value.chars, 1)} : TRUE
    IN IF value.kind # "String" THEN Err("Expected a string")
       ELSE IF ~r.ok THEN Err("bincode")
       ELSE Ok(r.v)

\* transmission::deserialize::<T>, T being the type `shape`
deserialize(shape, value) ==
    LET bytes == CHOOSE x \in {Base64Decode(value.chars)} : TRUE
        r == CHOOSE x \in {BincodeDecode(shape, bytes.bytes, 1)} : TRUE
    IN IF value.kind # "String" THEN Err("Expected a string")
       ELSE IF ~bytes.ok THEN Err("base64")
       ELSE IF ~r.ok THEN Err("bincode")
       ELSE Ok(r.v)

\* rerecast's TriMesh as the poll response carries it (obstacles)
TriMeshTree(mesh) ==
    TStruct(<<"vertices", "indices">>,
            <<TSeq([i \in 1..Len(mesh.vertices) |->
                      TTuple(<<TF(mesh.vertices[i][1]), TF(mesh.vertices[i][2]),
                               TF(mesh.vertices[i][3])>>)]),
              TSeq([i \in 1..Len(mesh.indices) |->
                      TTuple(<<TU(mesh.indices[i][1]), TU(mesh.indices[i][2]),
                               TU(mesh.indices[i][3])>>)])>>)

TriMeshShape ==
    TStruct(<<"vertices", "indices">>,
            <<TSeq(<<TTuple(<<TF(0), TF(0), TF(0)>>)>>),
              TSeq(<<TTuple(<<TU(0), TU(0), TU(0)>>)>>)>>)

\* the obstacle meshes sent to the editor: merged affectors of the scene, and
\* triangles of a mesh large enough for every width of index
TransmittedMeshes ==
    {MergeAffectors(a) : a \in AffectorLists}
    \cup {[vertices |-> << <<-3, 0, 4>> >>,
           indices |-> << <<249, 250, 251>>, <<300, 65535, 65536>> >>]}

\* the settings the editor builds navmeshes with: walkable_climb is what the
\* text of its input field parses to ("1", "3", "inf")
CodecSettings ==
    {SettingsWithClimb(SettingsWithVolumes(up, aabb, volumes), climb) :
        up \in {Vec3X, Vec3Y, Vec3Z}, aabb \in {DefaultAabb, TestAabb},
        volumes \in {<<>>, <<VolumeUpper>>}, climb \in {F32(1), F32(3), F32Infinity}}

CodecStart ==
    [pc |-> "idle", navmesh |-> None, text |-> <<>>, value |-> None, wire |-> None,
     result |-> None]

CodecInit ==
    /\ navmeshes = [id \in AssetIds |-> None]
    /\ reserved = 0
    /\ queue = EmptyMap
    /\ task_queue = EmptyMap
    /\ scene = {"ground", "cube"}
    /\ backend = NoBackend
    /\ ret = NoReturn
    /\ triggered = {}
    /\ gen = GenIdle
    /\ handles = AllHandlesHeld
    /\ editor = EditorIdle
    /\ weak = NoHandles
    /\ \/ \E s \in SUBSET {"ground", "cube"}, settings \in CodecSettings :
            LET r == generate_navmesh(BackendAffectors(s), settings) IN
            /\ r.ok
            /\ codec = [CodecStart EXCEPT !.pc = "save", !.navmesh = r.navmesh]
       \/ \E mesh \in TransmittedMeshes :
            codec = [CodecStart EXCEPT !.pc = "serialize",
                                       !.value = Some(TriMeshTree(mesh))]
       \/ \E kind \in {"Null", "Number", "Array", "Object"} :
            codec = [CodecStart EXCEPT !.pc = "received",
                                       !.wire = Some(JsonOther(kind))]

\* the write task poll_save_task spawns: the navmesh of the handle is written
\* as pretty JSON
write_navmesh ==
    /\ codec.pc = "save"
    /\ codec' = [codec EXCEPT !.pc = "saved",
                              !.text = WriteJson(NavmeshTree(codec.navmesh[1]))]
    /\ UNCHANGED <<schedVars, gen, handles, editor, weak>>

\* the asset server loads the file back
load ==
    /\ codec.pc = "saved"
    /\ codec' = [codec EXCEPT !.pc = "loaded",
                              !.result = Some(NavmeshLoader_load(codec.text))]
    /\ UNCHANGED <<schedVars, gen, handles, editor, weak>>

\* the game answers the poll request with the serialized response
transmit ==
    /\ codec.pc = "serialize"
    /\ codec' = [codec EXCEPT !.pc = "received",
                              !.wire = Some(serialize(codec.value[1]))]
    /\ UNCHANGED <<schedVars, gen, handles, editor, weak>>

\* navmesh_pipeline decodes the result of the poll request
receive ==
    /\ codec.pc = "received"
    /\ codec' = [codec EXCEPT !.pc = "deserialized",
                              !.result = Some(deserialize(TriMeshShape, codec.wire[1]))]
    /\ UNCHANGED <<schedVars, gen, handles, editor, weak>>

CodecNext ==
    \/ write_navmesh
    \/ load
    \/ transmit
    \/ receive

CodecSpec == CodecInit /\ [][CodecNext]_vars

----------------------------------------------------------------------------
(* The rerecast calls of the pipeline block, each on its own data *)

\* Heightfield::add_span: put a span into a column kept sorted by floor; spans
\* within walkable_climb of each other become one span with the union of the
\* height ranges and the higher area id
RECURSIVE AddSpanUnmerged(_, _, _)
AddSpanUnmerged(column, new, climb) ==
    IF column = <<>> THEN <<new>>
    ELSE IF Head(column).smin <= new.smin
         THEN <<Head(column)>> \o AddSpanUnmerged(Tail(column), new, climb)
         ELSE <<new>> \o column

RECURSIVE AddSpan(_, _, _)
AddSpan(column, new, climb) ==
    IF column = <<>> THEN <<new>>
    ELSE LET cur == Head(column) IN
         IF cur.smax + climb < new.smin
         THEN <<cur>> \o AddSpan(Tail(column), new, climb)
         ELSE IF new.smax + climb < cur.smin
         THEN <<new>> \o column
         ELSE AddSpan(Tail(column),
                      [smin |-> Min2(cur.smin, new.smin),
                       smax |-> Max2(cur.smax, new.smax),
                       area |-> Max2(cur.area, new.area)],
                      climb)

\* the three span filters: each pass rewrites area ids only. A low-hanging
\* span above a walkable one within walkable_climb becomes walkable; a span
\* more than walkable_climb above the lowest span of the neighbouring column is
\* a ledge; a span with less than walkable_height below the next span is too low
FilterSpans(hf, pass, climb, height) ==
    [c \in 1..Len(hf) |->
        [i \in 1..Len(hf[c]) |->
            LET span == hf[c][i]
                other == hf[3 - c]
            IN CASE pass = "filter_low_hanging_walkable_obstacles" ->
                        IF /\ i > 1
                           /\ span.area = 0
                           /\ hf[c][i - 1].area # 0
                           /\ span.smax - hf[c][i - 1].smax <= climb
                        THEN [span EXCEPT !.area = hf[c][i - 1].area]
                        ELSE span
                 [] pass = "filter_ledge_spans" ->
                        IF other = <<>> \/ span.smax - other[1].smax > climb
                        THEN [span EXCEPT !.area = 0]
                        ELSE span
                 [] OTHER ->
                        IF i < Len(hf[c]) /\ hf[c][i + 1].smin - span.smax < height
                        THEN [span EXCEPT !.area = 0]
                        ELSE span]]

\* the adjacency of a polygon mesh: polygon p's edge j from vertex a to b is
\* linked to an edge from b to a of another polygon, the k-th edge from the
\* lower to the higher vertex with the k-th edge back; 0 marks a border edge
BuildMeshAdjacencyOneWay(polys) ==
    [p \in 1..Len(polys) |-> [j \in 1..3 |->
        LET from == polys[p][j]
            to == polys[p][(j % 3) + 1]
            back == {e \in (1..Len(polys)) \X (1..3) :
                        polys[e[1]][e[2]] = to /\ polys[e[1]][(e[2] % 3) + 1] = from}
        IN IF from < to /\ back # {}
           THEN (CHOOSE e \in back : \A f \in back : e[1] <= f[1])[1]
           ELSE 0]]

BuildMeshAdjacency(polys) ==
    [p \in 1..Len(polys) |-> [j \in 1..3 |->
        LET Edges(a, b) == {e \in (1..Len(polys)) \X (1..3) :
                                polys[e[1]][e[2]] = a /\ polys[e[1]][(e[2] % 3) + 1] = b}
            Before(e, f) == e[1] < f[1] \/ (e[1] = f[1] /\ e[2] < f[2])
            Rank(e, es) == Cardinality({f \in es : Before(f, e)})
            from == polys[p][j]
            to == polys[p][(j % 3) + 1]
            same == Edges(from, to)
            back == Edges(to, from)
            mates == {e \in back : Rank(e, back) = Rank(<<p, j>>, same) /\ e[1] # p}
        IN IF mates = {} THEN 0 ELSE (CHOOSE e \in mates : TRUE)[1]]]

\* neighbouring regions of fewer than merge_region_area cells together are
\* merged, the lower id staying
RECURSIVE MergeRegions(_, _, _)
MergeRegions(cells, min_region_area, merge_region_area) ==
    LET Count(r) == Cardinality({i \in 1..Len(cells) : cells[i] = r})
        pairs == {pr \in (1..3) \X (1..3) :
                    /\ pr[1] < pr[2]
                    /\ \E i \in 1..(Len(cells) - 1) :
                            {cells[i], cells[i + 1]} = {pr[1], pr[2]}
                    /\ Count(pr[1]) + Count(pr[2]) < merge_region_area}
        first == CHOOSE pr \in pairs :
                    \A q \in pairs : pr[1] < q[1] \/ (pr[1] = q[1] /\ pr[2] <= q[2])
    IN IF pairs = {} THEN cells
       ELSE MergeRegions([i \in 1..Len(cells) |->
                                IF cells[i] = first[2] THEN first[1] ELSE cells[i]],
                             min_region_area, merge_region_area)

\* an end of build_regions that deletes no region
MergeAndFilterRegionsUnfiltered(cells, min_region_area, merge_region_area) ==
    MergeRegions(cells, min_region_area, merge_region_area)

\* the end of build_regions on a strip of cells that carry the region ids of
\* the flooding (0 is the null region): regions of fewer than min_region_area
\* cells are deleted, then the small neighbouring regions are merged
MergeAndFilterRegions(cells, min_region_area, merge_region_area) ==
    LET Count(r) == Cardinality({i \in 1..Len(cells) : cells[i] = r})
        kept == [i \in 1..Len(cells) |->
                    IF Count(cells[i]) < min_region_area THEN 0 ELSE cells[i]]
    IN MergeRegions(kept, min_region_area, merge_region_area)

\* erode_walkable_area(radius) on a strip of cells: a walkable cell closer
\* than radius to a cell that is not walkable, or to the border of the strip,
\* gets the null area
ErodeWalkableAreaAtRadius(walkable, radius) ==
    LET Abs(n) == IF n < 0 THEN -n ELSE n
        Dist(c) == CHOOSE d \in 1..MaxCells :
                        /\ \E b \in (0..(MaxCells + 1)) \ walkable : Abs(c - b) = d
                        /\ \A b \in (0..(MaxCells + 1)) \ walkable : Abs(c - b) >= d
    IN {c \in walkable : Dist(c) # radius}

ErodeWalkableArea(walkable, radius) ==
    LET Abs(n) == IF n < 0 THEN -n ELSE n
        Dist(c) == CHOOSE d \in 1..MaxCells :
                        /\ \E b \in (0..(MaxCells + 1)) \ walkable : Abs(c - b) = d
                        /\ \A b \in (0..(MaxCells + 1)) \ walkable : Abs(c - b) >= d
    IN {c \in walkable : Dist(c) >= radius}

RecastInit ==
    /\ navmeshes = [id \in AssetIds |-> None]
    /\ reserved = 0
    /\ queue = EmptyMap
    /\ task_queue = EmptyMap
    /\ scene = {"ground", "cube"}
    /\ backend = NoBackend
    /\ ret = NoReturn
    /\ triggered = {}
    /\ codec = CodecIdle
    /\ handles = AllHandlesHeld
    /\ editor = EditorIdle
    /\ weak = NoHandles
    /\ LET \* the spans triangles rasterize to: column, floor, ceiling, area
           RasterSpans ==
               {s \in [col : 1..2, smin : 0..2, smax : 1..3, area : {0, 63}] :
                    s.smin < s.smax}
           \* strips the flooding can leave: the cells of a region lie next to
           \* each other
           FloodedStrips ==
               {cells \in [1..MaxCells -> 0..3] :
                    \A i, j \in 1..MaxCells :
                        (i < j /\ cells[i] # 0 /\ cells[i] = cells[j]) =>
                            \A k \in i..j : cells[k] = cells[i]}
           \* the triangles of a polygon mesh over a pool of four vertices
           Triangles ==
               {t \in [1..3 -> 1..4] : t[1] # t[2] /\ t[2] # t[3] /\ t[1] # t[3]}
       IN
       \/ \E n \in 1..MaxSpans, climb \in 0..1 :
            \E pending \in [1..n -> RasterSpans] :
                gen = [pc |-> "rasterize_triangles", pending |-> pending,
                       heightfield |-> <<<<>>, <<>>>>, walkable_climb |-> climb,
                       walkable_height |-> 2]
       \/ \E cells \in FloodedStrips, min \in 1..2, merge \in {0, 3, 5} :
            gen = [pc |-> "build_regions", flooded |-> cells, regions |-> cells,
                   min_region_area |-> min, merge_region_area |-> merge]
       \/ \E walkable \in SUBSET (1..MaxCells), r1 \in 0..2, r2 \in 1..3 :
            /\ r1 < r2
            /\ gen = [pc |-> "erode_walkable_area", walkable |-> walkable,
                      radius |-> <<r1, r2>>, eroded |-> <<{}, {}>>]
       \/ \E n \in 1..MaxPolygons :
            \E polys \in [1..n -> Triangles] :
                gen = [pc |-> "into_polygon_mesh", polygons |-> polys]

\* heightfield.rasterize_triangles(&trimesh, config.walkable_climb), span by span
rasterize_triangles ==
    /\ gen.pc = "rasterize_triangles"
    /\ LET new == Head(gen.pending) IN
       gen' = [gen EXCEPT
                !.heightfield[new.col] =
                    AddSpan(@, [smin |-> new.smin, smax |-> new.smax, area |-> new.area],
                            gen.walkable_climb),
                !.pending = Tail(@),
                !.pc = IF Len(gen.pending) = 1
                       THEN "filter_low_hanging_walkable_obstacles" ELSE @]
    /\ UNCHANGED <<schedVars, codec, handles, editor, weak>>

\* the three filter calls, in the order of the code
filter_spans ==
    /\ gen.pc \in {"filter_low_hanging_walkable_obstacles", "filter_ledge_spans",
                   "filter_walkable_low_height_spans"}
    /\ gen' = [gen EXCEPT
                !.heightfield = FilterSpans(@, gen.pc, gen.walkable_climb,
                                            gen.walkable_height),
                !.pc = CASE @ = "filter_low_hanging_walkable_obstacles" -> "filter_ledge_spans"
                         [] @ = "filter_ledge_spans" -> "filter_walkable_low_height_spans"
                         [] OTHER -> "into_compact"]
    /\ UNCHANGED <<schedVars, codec, handles, editor, weak>>

\* contours.into_polygon_mesh(config.max_vertices_per_polygon)
into_polygon_mesh ==
    /\ gen.pc = "into_polygon_mesh"
    /\ gen' = [pc |-> "DetailNavmesh::new", polygons |-> gen.polygons,
               neighbours |-> BuildMeshAdjacency(gen.polygons)]
    /\ UNCHANGED <<schedVars, codec, handles, editor, weak>>

\* compact_heightfield.build_regions(border_size, min_region_area,
\* merge_region_area)?: an error when no region is left
build_regions ==
    /\ gen.pc = "build_regions"
    /\ LET regions == MergeAndFilterRegions(gen.flooded, gen.min_region_area,
                                            gen.merge_region_area)
       IN gen' = [gen EXCEPT !.regions = regions,
                             !.pc = IF \A i \in 1..Len(regions) : regions[i] = 0
                                    THEN "done" ELSE "build_contours"]
    /\ UNCHANGED <<schedVars, codec, handles, editor, weak>>

\* compact_heightfield.erode_walkable_area(config.walkable_radius), on the
\* same compact heightfield with either radius
erode_walkable_area ==
    /\ gen.pc = "erode_walkable_area"
    /\ gen' = [gen EXCEPT !.pc = "mark_convex_poly_area",
                          !.eroded = <<ErodeWalkableArea(gen.walkable, gen.radius[1]),
                                       ErodeWalkableArea(gen.walkable, gen.radius[2])>>]
    /\ UNCHANGED <<schedVars, codec, handles, editor, weak>>

RecastNext ==
    \/ rasterize_triangles
    \/ filter_spans
    \/ erode_walkable_area
    \/ build_regions
    \/ into_polygon_mesh

RecastSpec == RecastInit /\ [][RecastNext]_vars

----------------------------------------------------------------------------
(* Properties *)

\* C1: regenerate(id, settings) returns false and changes neither queue when
\* id is pending or has a task that poll_tasks has not removed yet; otherwise
\* it returns true and adds exactly the one pending entry (id, settings).
C1_RegenerateContract ==
    [][ret'.op = "regenerate" =>
        \A id \in {ret'.id}, s \in SettingsSet :
            regenerate(id, s) =>
                IF id \in DOMAIN queue \/ id \in DOMAIN task_queue
                THEN /\ ret' = Returned("regenerate", id, FALSE)
                     /\ queue' = queue
                     /\ task_queue' = task_queue
                ELSE /\ ret' = Returned("regenerate", id, TRUE)
                     /\ DOMAIN queue' = (DOMAIN queue) \cup {id}
                     /\ queue'[id] = s
                     /\ \A k \in DOMAIN queue : queue'[k] = queue[k]
                     /\ task_queue' = task_queue]_vars

\* a regeneration was refused for an id whose task is still in the task queue
C1_Witness ==
    /\ ret.op = "regenerate"
    /\ ~ret.queued
    /\ ret.id \in DOMAIN task_queue

\* C2: no id is at once pending in NavmeshQueue and in flight in
\* NavmeshTaskQueue, so a drain never spawns a second task for an id that
\* still has one.
C2_OneOutstandingPerId ==
    \A id \in AssetIds : ~(id \in DOMAIN queue /\ id \in DOMAIN task_queue)

\* one id is in flight while another, already generated once, is pending again
C2_Witness ==
    \E a \in DOMAIN task_queue, b \in DOMAIN queue :
        a # b /\ navmeshes[b] # None

\* C3: every accepted request (an entry of NavmeshQueue) eventually leads to a
\* NavmeshReady event carrying its id.
C3_RequestLeadsToReady ==
    \A id \in AssetIds : (id \in DOMAIN queue) ~> (id \in triggered)

\* C4: whenever poll_tasks triggers NavmeshReady(id), the task for id ended
\* with Ok and Assets<Navmesh> holds its navmesh under id.
C4_ReadyMeansStored ==
    [][poll_tasks =>
        \A id \in triggered' :
            /\ task_queue[id].result[1].ok
            /\ navmeshes'[id] = task_queue[id].result[1].navmesh]_vars

\* C5: poll_tasks removes every finished task, failed or not, and leaves its
\* id neither pending nor in flight; an id in that position stays there until
\* regenerate is called for it, and that call returns true and queues the
\* request; a generation that ends with Ok replaces the asset under the id.
C5_RegenerateAfterCompletion ==
    [][/\ \A id \in DOMAIN task_queue :
            (task_queue[id].result # None /\ poll_tasks) =>
                /\ id \notin DOMAIN task_queue'
                /\ id \notin DOMAIN queue'
                /\ task_queue[id].result[1].ok =>
                        navmeshes'[id] = task_queue[id].result[1].navmesh
       /\ \A id \in 1..reserved :
            (id \notin DOMAIN queue /\ id \notin DOMAIN task_queue) =>
                /\ (id \in DOMAIN queue' \/ id \in DOMAIN task_queue') =>
                        ret' = Returned("regenerate", id, TRUE)
                /\ \A s \in SettingsSet :
                        (ret'.op = "regenerate" /\ ret'.id = id /\ regenerate(id, s)) =>
                            /\ ret' = Returned("regenerate", id, TRUE)
                            /\ id \in DOMAIN queue'
                            /\ queue'[id] = s]_vars

\* a regeneration was accepted for an id that already holds a navmesh
C5_Witness ==
    /\ ret.op = "regenerate"
    /\ ret.queued
    /\ ret.id \in DOMAIN queue
    /\ navmeshes[ret.id] # None

\* C6: generate returns an id that is neither pending nor in flight and adds
\* its entry without touching another; every entry of the queue becomes a
\* task at the next drain.
C6_GenerateQueuesEach ==
    [][/\ \A s \in SettingsSet :
            generate(s) =>
                /\ ret'.id \notin (DOMAIN queue) \cup (DOMAIN task_queue)
                /\ DOMAIN queue' = (DOMAIN queue) \cup {ret'.id}
                /\ queue'[ret'.id] = s
                /\ \A k \in DOMAIN queue : queue'[k] = queue[k]
       /\ drain_queue_into_tasks =>
            \A id \in DOMAIN queue :
                /\ id \in DOMAIN task_queue'
                /\ task_queue'[id].settings = queue[id]]_vars

\* C7: a task's geometry is the affector list of the scene as it is when
\* drain_queue_into_tasks spawns the task; it does not change while the task
\* is in flight, and the result and the stored navmesh are computed from it.
C7_GeometryIsDrainSnapshot ==
    [][/\ \A id \in DOMAIN queue :
            id \in DOMAIN task_queue' =>
                LET ground == EntityAffector("ground")
                    cube == EntityAffector("cube")
                    SceneAffectors ==
                        IF "ground" \in scene /\ "cube" \in scene THEN <<ground, cube>>
                        ELSE IF "ground" \in scene THEN <<ground>>
                        ELSE IF "cube" \in scene THEN <<cube>>
                        ELSE <<>>
                IN
                /\ task_queue'[id].affectors = SceneAffectors
                /\ task_queue'[id].settings = queue[id]
                /\ task_queue'[id].result = None
       /\ \A id \in (DOMAIN task_queue) \cap (DOMAIN task_queue') :
            /\ task_queue'[id].affectors = task_queue[id].affectors
            /\ task_queue[id].result # None =>
                    task_queue'[id].result = task_queue[id].result
            /\ (task_queue[id].result = None /\ task_queue'[id].result # None) =>
                    task_queue'[id].result[1] =
                        generate_navmesh(task_queue[id].affectors,
                                         task_queue[id].settings)
       /\ \A id \in triggered' :
            task_queue[id].result[1].ok =>
                navmeshes'[id] = task_queue[id].result[1].navmesh]_vars

\* a task finished with a navmesh of ground and cube after the cube was
\* despawned
C7_Witness ==
    \E id \in DOMAIN task_queue :
        /\ task_queue[id].result # None
        /\ task_queue[id].result[1].ok
        /\ Len(task_queue[id].affectors) = 2
        /\ "cube" \notin scene

\* C8: for every up other than X, Y and Z generate_navmesh returns the
\* unsupported-up error and produces no navmesh; for X, Y and Z the up check
\* passes and that error is never returned.
C8_UpAxisCheck ==
    LET up == gen.settings.up IN
    /\ (gen.pc = "done" /\ up \notin {Vec3X, Vec3Y, Vec3Z}) =>
            /\ gen.result = Some(Err(ErrUnsupportedUp))
            /\ gen.internal = None
    /\ up \in {Vec3X, Vec3Y, Vec3Z} =>
            /\ gen.result # None => gen.result[1].err # ErrUnsupportedUp
            /\ gen.pc \notin {"merge_affectors", "permute_input"} =>
                    gen.trace[2] = "permute_input"

\* an invocation with up = -Y over some geometry ended with the error
C8_Witness ==
    /\ gen.pc = "done"
    /\ gen.settings.up = Vec3NegY
    /\ gen.affectors # <<>>
    /\ ~gen.result[1].ok

\* C9: when generate_navmesh returns the unsupported-up error, no affector
\* vertex has been transformed or merged and no later stage has run.
C9_UpErrorBeforeComputation ==
    (gen.pc = "done" /\ gen.settings.up \notin {Vec3X, Vec3Y, Vec3Z}) =>
        /\ gen.trimesh.vertices = <<>>
        /\ \A i \in 1..Len(gen.trace) :
                gen.trace[i] \notin {"permute_input", "aabb", "pipeline", "permute_output"}

\* C10: for up = Z and up = X each of the three output permutations (polygon
\* vertices, detail vertices, polygon AABB) undoes the input permutation, on
\* the permuted input vertices and on the navmesh handed back; for up = Y the
\* input and the output are left as they are.
C10_PermutationInverse ==
    LET up == gen.settings.up
        world == MergeAffectors(gen.affectors).vertices
        permuted == gen.trimesh.vertices
    IN
    (gen.pc \in {"aabb", "pipeline", "permute_output", "done"}
        /\ up \in {Vec3X, Vec3Y, Vec3Z}) =>
        /\ Len(permuted) = Len(world)
        /\ \A i \in 1..Len(world) :
            /\ PermuteOutPolygonVertex(up, permuted[i]) = world[i]
            /\ PermuteOutDetailVertex(up, permuted[i]) = world[i]
            /\ PermuteOutAabb(up, permuted[i]) = world[i]
            /\ up = Vec3Y => permuted[i] = world[i]
        /\ (gen.result # None /\ gen.result[1].ok) =>
            LET out == gen.result[1].navmesh[1]
                int == gen.internal[1]
            IN
            /\ Len(out.polygon.vertices) = Len(int.polygon.vertices)
            /\ Len(out.detail.vertices) = Len(int.detail.vertices)
            /\ \A i \in 1..Len(int.polygon.vertices) :
                    PermuteInVertex(up, out.polygon.vertices[i]) = int.polygon.vertices[i]
            /\ \A i \in 1..Len(int.detail.vertices) :
                    PermuteInVertex(up, out.detail.vertices[i]) = int.detail.vertices[i]
            /\ PermuteInVertex(up, out.polygon.aabb.min) = int.polygon.aabb.min
            /\ PermuteInVertex(up, out.polygon.aabb.max) = int.polygon.aabb.max
            /\ up = Vec3Y => (out.polygon = int.polygon /\ out.detail = int.detail)

\* a Z-up invocation handed back a detail vertex with three different
\* components that the output permutation moved
C10_Witness ==
    /\ gen.pc = "done"
    /\ gen.settings.up = Vec3Z
    /\ gen.result[1].ok
    /\ \E i \in 1..Len(gen.internal[1].detail.vertices) :
        LET v == gen.result[1].navmesh[1].detail.vertices[i] IN
        /\ Cardinality({v[1], v[2], v[3]}) = 3
        /\ v # gen.internal[1].detail.vertices[i]

\* C11: for every supported up the AABB handed to the heightfield builder is
\* the world-frame AABB (the one of the settings, or else the one of the merged
\* world-frame geometry) permuted once with the permutation of the input
\* vertices; a derived AABB bounds the permuted input vertices.
C11_AabbPermutedOnce ==
    LET up == gen.settings.up
        given == gen.settings.aabb
        world == IF given = DefaultAabb
                 THEN ComputeAabb(MergeAffectors(gen.affectors))
                 ELSE Some(given)
        verts == gen.trimesh.vertices
    IN
    gen.pc \in {"pipeline", "permute_output"} =>
        /\ gen.aabb.min = PermuteInVertex(up, world[1].min)
        /\ gen.aabb.max = PermuteInVertex(up, world[1].max)
        /\ given = DefaultAabb =>
            \A i \in 1..Len(verts) : \A k \in 1..3 :
                gen.aabb.min[k] <= verts[i][k] /\ verts[i][k] <= gen.aabb.max[k]

C13_FailureStoresNothing ==
    [][/\ \A id \in DOMAIN task_queue :
            (/\ task_queue[id].result # None
             /\ ~task_queue[id].result[1].ok
             /\ id \notin DOMAIN task_queue') =>
                navmeshes'[id] = navmeshes[id]
       /\ \A id \in AssetIds :
            navmeshes'[id] # navmeshes[id] =>
                /\ id \in DOMAIN task_queue
                /\ task_queue[id].result # None
                /\ task_queue[id].result[1].ok
                /\ navmeshes'[id] = task_queue[id].result[1].navmesh]_vars

\* one poll reported two ids: the failed one is empty, the other one stored
C13_Witness ==
    \E a \in triggered, b \in triggered :
        navmeshes[a] = None /\ navmeshes[b] # None

\* C14: poll_tasks removes a failed task and queues nothing for its id; an id
\* gets a task only from its entry in NavmeshQueue, and an entry only from a
\* call of generate or regenerate for that id.
C14_NoRetry ==
    [][/\ \A id \in DOMAIN task_queue :
            (/\ task_queue[id].result # None
             /\ ~task_queue[id].result[1].ok
             /\ poll_tasks) =>
                /\ id \notin DOMAIN task_queue'
                /\ id \notin DOMAIN queue'
       /\ \A id \in AssetIds :
            /\ (id \notin DOMAIN task_queue /\ id \in DOMAIN task_queue') =>
                    id \in DOMAIN queue
            /\ (id \notin DOMAIN queue /\ id \in DOMAIN queue') =>
                    /\ ret'.op \in {"generate", "regenerate"}
                    /\ ret'.id = id]_vars

\* a failed id was reported while a working backend is set, and nothing is
\* pending or in flight for it
C14_Witness ==
    \E id \in triggered :
        /\ navmeshes[id] = None
        /\ id \notin DOMAIN queue
        /\ id \notin DOMAIN task_queue
        /\ backend = "editor_backend"
        /\ ret = NoReturn

\* C15: once the pipeline block of a run has been through, the three span
\* filters have been called exactly once each, in the order low-hanging
\* obstacles, ledges, low height, directly one after the other, after
\* rasterize_triangles and before into_compact.
C15_FilterOrder ==
    LET calls == gen.heightfield.calls
        At(name) == {i \in 1..Len(calls) : calls[i] = name}
        Pos(name) == CHOOSE i \in At(name) : TRUE
    IN
    (gen.pc = "permute_output" \/ (gen.result # None /\ gen.result[1].ok)) =>
        /\ \A name \in {"rasterize_triangles", "filter_low_hanging_walkable_obstacles",
                        "filter_ledge_spans", "filter_walkable_low_height_spans",
                        "into_compact"} :
                Cardinality(At(name)) = 1
        /\ Pos("rasterize_triangles") < Pos("filter_low_hanging_walkable_obstacles")
        /\ Pos("filter_ledge_spans") = Pos("filter_low_hanging_walkable_obstacles") + 1
        /\ Pos("filter_walkable_low_height_spans") = Pos("filter_ledge_spans") + 1
        /\ Pos("filter_walkable_low_height_spans") < Pos("into_compact")

\* a Z-up run over geometry came back with a navmesh
C15_Witness ==
    /\ gen.pc = "done"
    /\ gen.result[1].ok
    /\ gen.settings.up = Vec3Z
    /\ gen.affectors # <<>>
    /\ Len(gen.heightfield.calls) >= 13

\* C16: mark_convex_poly_area is called once per volume of the settings, after
\* erode_walkable_area and before build_distance_field, in list order: a span
\* covered by no volume keeps its area id, and a span covered by several is
\* left with the area id of the last volume of the list that covers it.
C16_LastVolumeWins ==
    LET calls == gen.heightfield.calls
        areas == gen.heightfield.areas
        volumes == gen.settings.area_volumes
        spans == gen.trimesh.vertices
        At(name) == {i \in 1..Len(calls) : calls[i] = name}
        Pos(name) == CHOOSE i \in At(name) : TRUE
        Covering(i) == {j \in 1..Len(volumes) : Covers(volumes[j], spans[i])}
        Last(S) == CHOOSE j \in S : \A k \in S : k <= j
    IN
    (gen.pc = "permute_output" \/ (gen.result # None /\ gen.result[1].ok)) =>
        /\ Cardinality(At("mark_convex_poly_area")) = Len(volumes)
        /\ Cardinality(At("erode_walkable_area")) = 1
        /\ Cardinality(At("build_distance_field")) = 1
        /\ \A i \in At("mark_convex_poly_area") :
                Pos("erode_walkable_area") < i /\ i < Pos("build_distance_field")
        /\ Len(areas) = Len(spans)
        /\ \A i \in 1..Len(spans) :
                areas[i] = IF Covering(i) = {} THEN WalkableAreas(spans)[i]
                           ELSE volumes[Last(Covering(i))].area

\* a run with the volumes <<VolumeUpper, VolumeAll>> left a span that both
\* cover with the area id of VolumeAll
C16_Witness ==
    /\ gen.pc = "done"
    /\ gen.result[1].ok
    /\ gen.settings.area_volumes = <<VolumeUpper, VolumeAll>>
    /\ \E i \in 1..Len(gen.trimesh.vertices) :
        /\ Covers(VolumeUpper, gen.trimesh.vertices[i])
        /\ Covers(VolumeAll, gen.trimesh.vertices[i])
        /\ gen.heightfield.areas[i] = VolumeAll.area

\* C18: a Navmesh written by the save path and read back by the loader is
\* loaded without error and equals the original in every field.
C18_NavRoundTrip ==
    codec.pc = "loaded" =>
        codec.result = Some(Ok(NavmeshTree(codec.navmesh[1])))

\* C19: serialize yields a JSON string, and deserialize of it yields the
\* value that was serialized; deserialize of a JSON value that is not a string
\* yields an error.
C19_TransmissionRoundTrip ==
    /\ (codec.pc \in {"received", "deserialized"} /\ codec.value # None) =>
            codec.wire[1].kind = "String"
    /\ codec.pc = "deserialized" =>
            IF codec.value # None
            THEN codec.result = Some(Ok(codec.value[1]))
            ELSE /\ codec.wire[1].kind # "String"
                 /\ ~codec.result[1].ok

\* the mesh with indices on both sides of every varint width and a negative
\* coordinate came back
C19_Witness ==
    /\ codec.pc = "deserialized"
    /\ codec.value # None
    /\ codec.result[1].ok
    /\ \E i \in 1..Len(codec.value[1].items[2].items) :
            codec.value[1].items[2].items[i].items[3].n = 65536
    /\ \E i \in 1..Len(codec.value[1].items[1].items) :
            codec.value[1].items[1].items[i].items[1].n < 0

\* C20: one backend is registered at a time: a call of
\* set_navmesh_affector_backend(b) leaves b as the backend whatever was set
\* before, and no other step changes the backend; a drain of pending requests
\* spawns their tasks with the affectors of the backend that is set, if running
\* it succeeds, and no step adds a task while no backend is set.
C20_OneBackend ==
    [][/\ ret'.op = "set_navmesh_affector_backend" => backend' = ret'.backend
       /\ ret'.op # "set_navmesh_affector_backend" => backend' = backend
       /\ (queue # EmptyMap /\ queue' = EmptyMap /\ BackendRuns(backend)) =>
            \A id \in DOMAIN queue :
                /\ id \in DOMAIN task_queue'
                /\ task_queue'[id].affectors = BackendAffectors(scene)
       /\ (DOMAIN task_queue') \ (DOMAIN task_queue) # {} =>
            /\ backend # NoBackend
            /\ BackendRuns(backend)
       /\ backend = NoBackend => task_queue = EmptyMap]_vars

\* a second registration replaced a working backend: tasks of the first are
\* running, a request is pending, and the backend now set is the second
C20_Witness ==
    /\ ret = BackendSet("failing_backend")
    /\ backend = "failing_backend"
    /\ task_queue # EmptyMap
    /\ queue # EmptyMap

C22_DroppedHandleHarmless ==
    /\ ~handles.panicked
    /\ \A id \in handles.dropped : navmeshes[id] = None

\* C23: when poll_tasks takes the finished tasks out, every other id keeps
\* its in-flight task, and the pending requests and the stored navmesh of every
\* other id are as before.
C23_IndependentIds ==
    [][LET done == {a \in DOMAIN task_queue : task_queue[a].result # None} IN
       triggered' # {} =>
            /\ queue' = queue
            /\ \A b \in AssetIds \ done :
                /\ navmeshes'[b] = navmeshes[b]
                /\ b \in DOMAIN task_queue =>
                    /\ b \in DOMAIN task_queue'
                    /\ task_queue'[b] = task_queue[b]]_vars

\* a poll took the finished task of one id out while the task of another id
\* is still running
C23_Witness ==
    /\ triggered # {}
    /\ \E b \in DOMAIN task_queue :
        /\ b \notin triggered
        /\ task_queue[b].result = None

\* C24: while and after rasterize_triangles puts spans into the heightfield,
\* and after each of the three filters, no two spans of a column overlap in
\* height.
C24_SpansDisjoint ==
    gen.pc \in {"rasterize_triangles", "filter_low_hanging_walkable_obstacles",
                "filter_ledge_spans", "filter_walkable_low_height_spans", "into_compact"} =>
        \A c \in 1..Len(gen.heightfield) :
            \A i, j \in 1..Len(gen.heightfield[c]) :
                i < j => gen.heightfield[c][i].smax <= gen.heightfield[c][j].smin

\* two spans were rasterized into one column and left it, after the filters,
\* with the one span that covers both
C24_Witness ==
    /\ gen.pc = "into_compact"
    /\ \E c \in 1..2 :
        /\ Len(gen.heightfield[c]) = 1
        /\ gen.heightfield[c][1].smin = 0
        /\ gen.heightfield[c][1].smax = 3

\* C25: in the polygon mesh into_polygon_mesh returns, a polygon edge that
\* records a neighbour polygon has, in that neighbour, an edge that records the
\* first polygon.
C25_AdjacencyReciprocal ==
    gen.pc = "DetailNavmesh::new" =>
        \A p \in 1..Len(gen.neighbours) : \A j \in 1..3 :
            LET n == gen.neighbours[p][j] IN
            n # 0 => \E k \in 1..3 : gen.neighbours[n][k] = p

\* two triangles that share the edge between vertex 1 and vertex 2 are linked
C25_Witness ==
    /\ gen.pc = "DetailNavmesh::new"
    /\ Len(gen.polygons) = 2
    /\ gen.polygons[1] = <<1, 2, 3>>
    /\ gen.polygons[2] = <<2, 1, 4>>
    /\ gen.neighbours[1][1] = 2
    /\ gen.neighbours[2][1] = 1

C27_ErosionMonotone ==
    gen.pc = "mark_convex_poly_area" =>
        /\ gen.radius[1] < gen.radius[2]
        /\ gen.eroded[2] \subseteq gen.eroded[1]

\* the larger radius took away cells the smaller one left, and left some
C27_Witness ==
    /\ gen.pc = "mark_convex_poly_area"
    /\ gen.eroded[2] # {}
    /\ gen.eroded[2] # gen.eroded[1]
    /\ gen.eroded[1] # gen.walkable

\* C28: every request that is pending when drain_queue_into_tasks starts is
\* afterwards an in-flight task with the settings of the request, or is still
\* pending.
C28_NoRequestLost ==
    [][\A id \in DOMAIN queue :
        \/ id \in DOMAIN queue' /\ queue'[id] = queue[id]
        \/ id \in DOMAIN task_queue' /\ task_queue'[id].settings = queue[id]]_vars

\* C29: a task that has not finished stays in NavmeshTaskQueue, with the
\* affectors and settings it was spawned with, whatever step is taken.
C29_RunningTaskKept ==
    [][\A id \in DOMAIN task_queue :
        task_queue[id].result = None =>
            /\ id \in DOMAIN task_queue'
            /\ task_queue'[id].affectors = task_queue[id].affectors
            /\ task_queue'[id].settings = task_queue[id].settings]_vars

\* regenerate was refused for an id whose task is running, while another
\* request is pending and a drain and a poll have gone by
C29_Witness ==
    /\ ret.op = "regenerate"
    /\ ~ret.queued
    /\ ret.id \in DOMAIN task_queue
    /\ task_queue[ret.id].result = None
    /\ queue # EmptyMap
    /\ \E id \in AssetIds : navmeshes[id] # None

\* C30: a step removes a task only if the task has finished, and triggers
\* NavmeshReady for exactly the tasks it removes; a poll that finds finished
\* tasks removes all of them; regenerate for an id that has a task returns
\* false and queues nothing.
C30_PollRemovesFinished ==
    [][LET finished == {id \in DOMAIN task_queue : task_queue[id].result # None}
           removed == (DOMAIN task_queue) \ (DOMAIN task_queue')
       IN /\ removed \subseteq finished
          /\ triggered' = removed
          /\ (triggered' # {} \/ handles'.panicked # handles.panicked) =>
                removed = finished
          /\ (ret'.op = "regenerate" /\ ret'.id \in DOMAIN task_queue) =>
                ~ret'.queued /\ queue' = queue]_vars

\* C31: the stages of generate_navmesh and the rerecast calls of its pipeline
\* block run in the one order of the code, each at most once except
\* mark_convex_poly_area, which runs once per volume; when a stage fails, the
\* run ends there with the error of that stage and without a navmesh.
C31_StageOrderFailFast ==
    LET IsPrefix(a, b) == Len(a) <= Len(b) /\ a = SubSeq(b, 1, Len(a))
        stages == <<"merge_affectors", "permute_input", "aabb", "pipeline",
                    "permute_output">>
        expected ==
            <<"mark_walkable_triangles", "HeightfieldBuilder::build",
              "rasterize_triangles", "filter_low_hanging_walkable_obstacles",
              "filter_ledge_spans", "filter_walkable_low_height_spans",
              "into_compact", "erode_walkable_area">>
            \o [i \in 1..Len(gen.settings.area_volumes) |-> "mark_convex_poly_area"]
            \o <<"build_distance_field", "build_regions", "build_contours",
                 "into_polygon_mesh", "DetailNavmesh::new">>
        calls == gen.heightfield.calls
    IN /\ IsPrefix(gen.trace, stages)
       /\ IsPrefix(calls, expected)
       /\ calls # <<>> => Len(gen.trace) >= 3
       /\ Len(gen.trace) >= 4 => calls = expected
       /\ gen.pc = "done" =>
            IF gen.result[1].ok
            THEN gen.trace = stages
            ELSE /\ gen.result[1].navmesh = None
                 /\ gen.internal = None
                 /\ CASE Len(gen.trace) = 1 -> gen.result[1].err = ErrUnsupportedUp
                      [] Len(gen.trace) = 2 -> gen.result[1].err = ErrComputeAabb
                      [] OTHER -> /\ Len(gen.trace) = 3
                                  /\ calls # <<>>
                                  /\ calls[Len(calls)] \in FallibleCalls
                                  /\ gen.result[1].err = RerecastError(calls[Len(calls)])

\* a run with two area volumes stopped at into_compact, before any volume
\* was marked
C31_Witness ==
    /\ gen.pc = "done"
    /\ ~gen.result[1].ok
    /\ Len(gen.settings.area_volumes) = 2
    /\ gen.heightfield.calls # <<>>
    /\ gen.heightfield.calls[Len(gen.heightfield.calls)] = "into_compact"
    /\ gen.trace = <<"merge_affectors", "permute_input", "aabb">>

\* C32: no stage changes the settings of the run, and the navmesh a run
\* returns carries the settings the run was started with.
C32_SettingsUnchanged ==
    [][/\ gen'.settings = gen.settings
       /\ (gen'.pc = "done" /\ gen'.result[1].ok) =>
            gen'.result[1].navmesh[1].settings = gen.settings]_vars

\* a Z-up run without an AABB in its settings came back with a navmesh, after
\* the pipeline ran on an AABB derived from the geometry
C32_Witness ==
    /\ gen.pc = "done"
    /\ gen.result[1].ok
    /\ gen.settings.up = Vec3Z
    /\ gen.settings.aabb = DefaultAabb
    /\ gen.aabb # DefaultAabb
    /\ gen.result[1].navmesh[1].settings.aabb = DefaultAabb

----------------------------------------------------------------------------
(* The editor: saving the navmesh, fetching the scene of the running game *)

\* tasks of each kind (save dialogs, navmesh builds, scene fetches) in one run
MaxTasks == 2

\* the Save button: nothing while a SaveTask exists, else a task that shows
\* the save dialog, stored as the SaveTask resource
save_navmesh_unguarded ==
    /\ editor.dialogs < MaxTasks
    /\ editor' = [editor EXCEPT
            !.save_task = Some([dialog |-> editor.dialogs + 1, state |-> "pending"]),
            !.dialogs = @ + 1,
            !.log = {}]
    /\ UNCHANGED <<schedVars, gen, codec, handles, weak>>

save_navmesh ==
    /\ IF editor.save_task # None
       THEN editor' = [editor EXCEPT !.log = {}]
       ELSE /\ editor.dialogs < MaxTasks
            /\ editor' = [editor EXCEPT
                    !.save_task = Some([dialog |-> editor.dialogs + 1, state |-> "pending"]),
                    !.dialogs = @ + 1,
                    !.log = {}]
    /\ UNCHANGED <<schedVars, gen, codec, handles, weak>>

\* the user closes the dialog: with a file picked, or cancelled
dialog_resolve(picked) ==
    /\ editor.save_task # None
    /\ editor.save_task[1].state = "pending"
    /\ editor' = [editor EXCEPT
            !.save_task = Some([@[1] EXCEPT !.state = IF picked THEN "picked" ELSE "cancelled"]),
            !.log = {}]
    /\ UNCHANGED <<schedVars, gen, codec, handles, weak>>

\* runs while SaveTask exists: an unresolved dialog is left alone; a resolved
\* one is removed, and a write task is pushed to WriteTasks when a file was
\* picked and Assets<Navmesh> has a navmesh under NavmeshHandle
poll_save_task ==
    /\ editor.save_task # None
    /\ LET state == editor.save_task[1].state
       IN IF state = "pending"
          THEN editor' = [editor EXCEPT !.log = {}]
          ELSE IF state = "picked" /\ editor.has_navmesh
               THEN editor' = [editor EXCEPT
                        !.save_task = None,
                        !.writes = Append(@, "running"),
                        !.write_tasks = Append(@, Len(editor.writes) + 1),
                        !.log = {}]
               ELSE editor' = [editor EXCEPT !.save_task = None, !.log = {}]
    /\ UNCHANGED <<schedVars, gen, codec, handles, weak>>

\* the compute pool runs write task w to its end: the file is written, or
\* the write fails
write_finish(w, result) ==
    /\ w \in DOMAIN editor.writes
    /\ editor.writes[w] = "running"
    /\ editor' = [editor EXCEPT !.writes[w] = result, !.log = {}]
    /\ UNCHANGED <<schedVars, gen, codec, handles, weak>>

\* takes the vector out of WriteTasks, polls each task and keeps the
\* unfinished ones in the local vector; the local vector is dropped at the
\* end of the system, and a Task that is dropped is cancelled
poll_write_tasks ==
    LET tasks == {editor.write_tasks[i] : i \in DOMAIN editor.write_tasks}
    IN /\ editor' = [editor EXCEPT
               !.write_tasks = <<>>,
               !.writes = [w \in DOMAIN @ |->
                             IF w \in tasks /\ @[w] = "running" THEN "cancelled" ELSE @[w]],
               !.log = IF \E w \in tasks : editor.writes[w] = "err"
                       THEN {"Failed to write navmesh"} ELSE {}]
       /\ UNCHANGED <<schedVars, gen, codec, handles, weak>>

\* the Build Navmesh button: NavmeshHandle becomes the handle generate returns
build_navmesh ==
    /\ editor.built < MaxTasks
    /\ editor' = [editor EXCEPT
            !.navmesh_handle = editor.built + 1,
            !.has_navmesh = FALSE,
            !.built = @ + 1,
            !.log = {}]
    /\ UNCHANGED <<schedVars, gen, codec, handles, weak>>

\* the generator inserts the navmesh of the finished task under the handle
navmesh_ready ==
    /\ editor.navmesh_handle # DefaultHandle
    /\ ~editor.has_navmesh
    /\ editor' = [editor EXCEPT !.has_navmesh = TRUE, !.log = {}]
    /\ UNCHANGED <<schedVars, gen, codec, handles, weak>>

\* an observer that never forgets its finished task
on_get_navmesh_input_keep_finished ==
    /\ IF editor.task = None
       THEN /\ editor.fetches < MaxTasks
            /\ editor' = [editor EXCEPT
                    !.task = Some([fetch |-> editor.fetches + 1, pc |-> "settings",
                                   id |-> 0, meshes |-> 0]),
                    !.fetches = @ + 1,
                    !.log = {}]
       ELSE editor' = [editor EXCEPT !.log = {"a navmesh task is already running"}]
    /\ UNCHANGED <<schedVars, gen, codec, handles, weak>>

\* the observer of GetNavmeshInput: forgets a finished task, then spawns the
\* pipeline task if it holds none, else logs an error
on_get_navmesh_input ==
    /\ LET task == IF editor.task # None /\ editor.task[1].pc = "finished"
                   THEN None ELSE editor.task
       IN IF task = None
          THEN /\ editor.fetches < MaxTasks
               /\ editor' = [editor EXCEPT
                       !.task = Some([fetch |-> editor.fetches + 1, pc |-> "settings",
                                      id |-> 0, meshes |-> 0]),
                       !.fetches = @ + 1,
                       !.log = {}]
          ELSE editor' = [editor EXCEPT !.log = {"a navmesh task is already running"}]
    /\ UNCHANGED <<schedVars, gen, codec, handles, weak>>

\* how a step of navmesh_pipeline that can fail may end: a request fails in
\* transit, its answer is no JSON, has no "result", or does not decode
PipelineOutcomes == {"ok", "fetch_error", "invalid_json", "brp_error", "decode_error"}

\* a pipeline that clears the scene before it polls for the input
navmesh_pipeline_clear_first(outcome, id, meshes) ==
    /\ editor.task # None
    /\ LET t == editor.task[1]
           failed == [editor EXCEPT
                        !.task = Some([fetch |-> t.fetch, pc |-> "finished", id |-> 0, meshes |-> 0]),
                        !.log = {"navmesh pipeline failed: " \o outcome}]
       IN \/ /\ t.pc = "settings"
             /\ editor' = IF outcome = "ok"
                          THEN [editor EXCEPT !.task = Some([t EXCEPT !.pc = "generate"]),
                                              !.log = {}]
                          ELSE failed
          \/ /\ t.pc = "generate"
             /\ editor' = IF outcome = "ok"
                          THEN [editor EXCEPT
                                  !.task = Some([t EXCEPT !.pc = "poll", !.id = id]),
                                  !.visual_meshes = {},
                                  !.gizmos = [i \in 1..Len(@) |-> "cleared"],
                                  !.log = {}]
                          ELSE failed
          \/ /\ t.pc = "poll"
             /\ editor' = IF outcome = "ok"
                          THEN [editor EXCEPT
                                  !.task = Some([t EXCEPT !.pc = "apply", !.id = 0,
                                                          !.meshes = meshes]),
                                  !.log = {}]
                          ELSE failed
          \/ /\ t.pc = "apply"
             /\ editor' = [editor EXCEPT
                    !.visual_meshes = (editor.entities + 2)..(editor.entities + 1 + t.meshes),
                    !.gizmos = [i \in 1..Len(@) |-> "cleared"] \o <<"new">>,
                    !.entities = @ + 1 + t.meshes,
                    !.navmesh_handle = DefaultHandle,
                    !.has_navmesh = FALSE,
                    !.task = Some([fetch |-> t.fetch, pc |-> "finished", id |-> 0, meshes |-> 0]),
                    !.log = {}]
    /\ UNCHANGED <<schedVars, gen, codec, handles, weak>>

\* one step of the pipeline task: read the settings and the url from the
\* world, send the generate request, send the poll request with the id that
\* came back and decode its answer, then in one access to the world despawn
\* the visual meshes, clear the gizmos, spawn the obstacle gizmo and the new
\* visual meshes and reset NavmeshHandle; an error at any step ends the task
navmesh_pipeline(outcome, id, meshes) ==
    /\ editor.task # None
    /\ LET t == editor.task[1]
           failed == [editor EXCEPT
                        !.task = Some([fetch |-> t.fetch, pc |-> "finished", id |-> 0, meshes |-> 0]),
                        !.log = {"navmesh pipeline failed: " \o outcome}]
       IN \/ /\ t.pc = "settings"
             /\ editor' = IF outcome = "ok"
                          THEN [editor EXCEPT !.task = Some([t EXCEPT !.pc = "generate"]),
                                              !.log = {}]
                          ELSE failed
          \/ /\ t.pc = "generate"
             /\ editor' = IF outcome = "ok"
                          THEN [editor EXCEPT
                                  !.task = Some([t EXCEPT !.pc = "poll", !.id = id]),
                                  !.log = {}]
                          ELSE failed
          \/ /\ t.pc = "poll"
             /\ editor' = IF outcome = "ok"
                          THEN [editor EXCEPT
                                  !.task = Some([t EXCEPT !.pc = "apply", !.id = 0,
                                                          !.meshes = meshes]),
                                  !.log = {}]
                          ELSE failed
          \/ /\ t.pc = "apply"
             /\ editor' = [editor EXCEPT
                    !.visual_meshes = (editor.entities + 2)..(editor.entities + 1 + t.meshes),
                    !.gizmos = [i \in 1..Len(@) |-> "cleared"] \o <<"new">>,
                    !.entities = @ + 1 + t.meshes,
                    !.navmesh_handle = DefaultHandle,
                    !.has_navmesh = FALSE,
                    !.task = Some([fetch |-> t.fetch, pc |-> "finished", id |-> 0, meshes |-> 0]),
                    !.log = {}]
    /\ UNCHANGED <<schedVars, gen, codec, handles, weak>>

EditorNext ==
    \/ save_navmesh
    \/ \E picked \in BOOLEAN : dialog_resolve(picked)
    \/ poll_save_task
    \/ \E w \in 1..MaxTasks, result \in {"ok", "err"} : write_finish(w, result)
    \/ poll_write_tasks
    \/ build_navmesh
    \/ navmesh_ready
    \/ on_get_navmesh_input
    \/ \E outcome \in PipelineOutcomes, id \in 1..2, meshes \in 0..1 :
            navmesh_pipeline(outcome, id, meshes)

EditorSpec == Init /\ [][EditorNext]_vars

\* C33: a write task that is held in WriteTasks and has not finished is still
\* held after any step of the editor, and no write task that was started is
\* cancelled before it finished.
C33_UnfinishedWriteKept ==
    [][\A i \in DOMAIN editor.write_tasks :
          LET w == editor.write_tasks[i]
          IN editor.writes[w] = "running" =>
               /\ \E j \in DOMAIN editor'.write_tasks : editor'.write_tasks[j] = w
               /\ editor'.writes[w] # "cancelled"]_vars

\* C34: while a SaveTask exists no step opens another save dialog or puts
\* another task in its place; SaveTask is removed only once its dialog has
\* resolved, and poll_save_task removes it whenever the dialog has resolved; a
\* write task is started only in the step that removes a SaveTask whose dialog
\* returned a file while Assets<Navmesh> holds a navmesh under NavmeshHandle,
\* and then it is exactly one, pushed to WriteTasks.
C34_OneSaveDialog ==
    [][LET before == editor.save_task
           after == editor'.save_task
           started == Len(editor'.writes) - Len(editor.writes)
           writable == /\ before # None
                       /\ before[1].state = "picked"
                       /\ editor.has_navmesh
       IN /\ before # None =>
                /\ editor'.dialogs = editor.dialogs
                /\ after = None \/ after[1].dialog = before[1].dialog
          /\ (before # None /\ after = None) =>
                /\ before[1].state # "pending"
                /\ started = IF writable THEN 1 ELSE 0
          /\ (poll_save_task /\ before[1].state # "pending") => after = None
          /\ started # 0 =>
                /\ writable
                /\ after = None
                /\ started = 1
                /\ editor'.write_tasks = Append(editor.write_tasks, Len(editor'.writes))
                /\ editor'.writes[Len(editor'.writes)] = "running"]_vars

\* the first dialog returned a file, its SaveTask was removed and the navmesh
\* went to a write task; a later Save click found no SaveTask and opened the
\* second dialog
C34_Witness ==
    /\ editor.dialogs = 2
    /\ editor.save_task # None
    /\ editor.save_task[1].dialog = 2
    /\ Len(editor.writes) = 1

\* C35: while the pipeline task of the observer is unfinished no step spawns
\* another one, and a GetNavmeshInput event then only logs an error; an event
\* that finds no task or a finished one spawns exactly one new task, which
\* starts at the head of the pipeline.
C35_OnePipelineTask ==
    [][LET running == editor.task # None /\ editor.task[1].pc # "finished"
           refused == "a navmesh task is already running" \in editor'.log
       IN /\ running =>
                /\ editor'.fetches = editor.fetches
                /\ editor'.task # None
                /\ editor'.task[1].fetch = editor.task[1].fetch
          /\ refused =>
                /\ running
                /\ editor' = [editor EXCEPT !.log = editor'.log]
          /\ on_get_navmesh_input => (refused <=> running)
          /\ (on_get_navmesh_input /\ ~running) =>
                /\ editor'.fetches = editor.fetches + 1
                /\ editor'.task = Some([fetch |-> editor'.fetches, pc |-> "settings",
                                        id |-> 0, meshes |-> 0])
          /\ editor'.fetches # editor.fetches => on_get_navmesh_input]_vars

\* the first pipeline task finished, and the next event spawned the second
C35_Witness ==
    /\ editor.fetches = 2
    /\ editor.task # None
    /\ editor.task[1].fetch = 2
    /\ editor.task[1].pc = "settings"

\* C36: a step changes the visual meshes or the gizmos of the editor world
\* only when the pipeline task has the decoded answer of the poll request in
\* hand, which it gets only after the generate request and then the poll
\* request succeeded; that step resets NavmeshHandle to the default handle; a
\* step in which the pipeline fails leaves the visual meshes, the gizmos and
\* NavmeshHandle as they were.
C36_WorldMutatedAfterBothRequests ==
    [][LET t == editor.task
           world(e) == <<e.visual_meshes, e.gizmos, e.entities>>
           failed == \E m \in editor'.log :
                        \E o \in PipelineOutcomes \ {"ok"} : m = "navmesh pipeline failed: " \o o
       IN /\ world(editor') # world(editor) =>
                /\ t # None
                /\ t[1].pc = "apply"
                /\ editor'.task[1].pc = "finished"
                /\ editor'.navmesh_handle = DefaultHandle
                /\ ~editor'.has_navmesh
                /\ editor'.log = {}
                /\ \A i \in 1..Len(editor.gizmos) : editor'.gizmos[i] = "cleared"
                /\ editor'.visual_meshes \cap editor.visual_meshes = {}
          /\ (t # None /\ editor'.task # None /\ editor'.task[1].pc = "apply"
                /\ t[1].pc # "apply") => (t[1].pc = "poll" /\ t[1].id # 0)
          /\ (t # None /\ editor'.task # None /\ editor'.task[1].pc = "poll"
                /\ t[1].pc # "poll") => (t[1].pc = "generate" /\ editor'.task[1].id # 0)
          /\ failed =>
                /\ t # None
                /\ t[1].pc \in {"settings", "generate", "poll"}
                /\ editor' = [editor EXCEPT !.task = editor'.task, !.log = editor'.log]
                /\ editor'.task[1].pc = "finished"
          /\ (t # None /\ t[1].pc = "apply" /\ editor'.task # t) =>
                editor'.navmesh_handle = DefaultHandle]_vars

\* the first fetch filled the scene, a navmesh was built for it, and the poll
\* request of the second fetch failed: the scene and the handle are still there
C36_Witness ==
    /\ editor.fetches = 2
    /\ editor.task # None
    /\ editor.task[1].pc = "finished"
    /\ editor.visual_meshes # {}
    /\ editor.gizmos = <<"new">>
    /\ editor.navmesh_handle # DefaultHandle
    /\ editor.has_navmesh
    /\ editor.log = {"navmesh pipeline failed: brp_error"}

----------------------------------------------------------------------------
(* WeHaveWeakHandleAtHome: a key that points weakly to a strong handle *)

\* Arc<StrongHandle> allocations in one run
MaxArcs == 3

\* strong references to one allocation, and keys, in one run
MaxRefs == 2

\* Assets::reserve_handle: a strong handle, in an Arc of its own, for a new id
reserve_handle ==
    LET used == {weak.arcs[a].id : a \in DOMAIN weak.arcs}
    IN /\ ~weak.panicked
       /\ Len(weak.arcs) < MaxArcs
       /\ \E id \in AssetIds :
            /\ id \notin used
            /\ \A other \in AssetIds \ used : id <= other
            /\ weak' = [weak EXCEPT !.arcs = Append(@, [id |-> id, strong |-> 1])]
       /\ UNCHANGED <<schedVars, gen, codec, handles, editor>>

\* Assets::get_strong_handle: another strong handle, in an Arc of its own, for
\* the id of an asset that is alive
get_strong_handle(id) ==
    /\ ~weak.panicked
    /\ Len(weak.arcs) < MaxArcs
    /\ \E a \in DOMAIN weak.arcs : weak.arcs[a].id = id /\ weak.arcs[a].strong > 0
    /\ weak' = [weak EXCEPT !.arcs = Append(@, [id |-> id, strong |-> 1])]
    /\ UNCHANGED <<schedVars, gen, codec, handles, editor>>

\* Handle::clone: one more strong reference to the same Arc
clone_handle(a) ==
    /\ ~weak.panicked
    /\ a \in DOMAIN weak.arcs
    /\ weak.arcs[a].strong > 0
    /\ weak.arcs[a].strong < MaxRefs
    /\ weak' = [weak EXCEPT !.arcs[a].strong = @ + 1]
    /\ UNCHANGED <<schedVars, gen, codec, handles, editor>>

\* a strong handle is dropped: one strong reference less
drop_strong_handle(a) ==
    /\ ~weak.panicked
    /\ a \in DOMAIN weak.arcs
    /\ weak.arcs[a].strong > 0
    /\ weak' = [weak EXCEPT !.arcs[a].strong = @ - 1]
    /\ UNCHANGED <<schedVars, gen, codec, handles, editor>>

\* WeHaveWeakHandleAtHome::new(&handle): the id of the handle and a weak
\* pointer to its Arc; a panic for a Handle::Weak, which is handle 0 here
WeHaveWeakHandleAtHome_new(a) ==
    /\ ~weak.panicked
    /\ Len(weak.keys) < MaxRefs
    /\ IF a = 0
       THEN weak' = [weak EXCEPT !.panicked = TRUE]
       ELSE /\ a \in DOMAIN weak.arcs
            /\ weak.arcs[a].strong > 0
            /\ weak' = [weak EXCEPT !.keys = Append(@, [id |-> weak.arcs[a].id, handle |-> a])]
    /\ UNCHANGED <<schedVars, gen, codec, handles, editor>>

\* upgrade: Weak::upgrade of the pointer, wrapped in Handle::Strong
upgrade(key) ==
    IF weak.arcs[key.handle].strong > 0
    THEN Some([id |-> weak.arcs[key.handle].id, arc |-> key.handle])
    ELSE None

\* PartialEq::eq
eq(key, other) == key.id = other.id

\* Hash::hash: what the key feeds to the hasher
hash(key) == <<key.id>>

WeakNext ==
    \/ reserve_handle
    \/ \E id \in AssetIds : get_strong_handle(id)
    \/ \E a \in 1..MaxArcs : clone_handle(a)
    \/ \E a \in 1..MaxArcs : drop_strong_handle(a)
    \/ \E a \in 0..MaxArcs : WeHaveWeakHandleAtHome_new(a)

WeakSpec == Init /\ [][WeakNext]_vars

\* C37: two keys are equal exactly if their ids are equal, equal keys hash
\* equally, whether or not their handles are alive; upgrade returns a handle
\* exactly if some strong handle of the asset of the key exists, and the handle
\* it returns is one of that asset; making a key adds no strong reference.
C37_WeakKey ==
    [][/\ \A i, j \in DOMAIN weak'.keys :
            LET key == weak'.keys[i]
                other == weak'.keys[j]
            IN /\ eq(key, other) <=> key.id = other.id
               /\ eq(key, other) => hash(key) = hash(other)
       /\ \A i \in DOMAIN weak.keys :
            LET key == weak.keys[i]
                alive == \E a \in DOMAIN weak.arcs :
                            weak.arcs[a].id = key.id /\ weak.arcs[a].strong > 0
            IN /\ upgrade(key) # None <=> alive
               /\ upgrade(key) # None => upgrade(key)[1].id = key.id
       /\ Len(weak'.keys) > Len(weak.keys) => weak'.arcs = weak.arcs]_vars

====
